---- MODULE Spec2Model ----
(***************************************************************************)
(* Model of the data ingestion and aggregation engine of basicdash:        *)
(* the monetary normalizer and cached loader of DashboardTecnicos          *)
(* (src/streamlit_app.py), its report methods, and the filters of the      *)
(* pages that call them.                                                   *)
(*                                                                         *)
(* Text is held as a sequence of one-character strings, so that the        *)
(* character-level steps of the normalizer are computed, not assumed.      *)
(* A monetary amount inside a table is an integer number of centavos.      *)
(***************************************************************************)
EXTENDS Integers, Sequences, FiniteSets, TLC

VARIABLES
    cell,         \* the source cell handed to the monetary normalizer
    normOut,      \* what the normalizer produced for it ("pending" before)
    disk,         \* the input directory: file name -> content
    dados,        \* DashboardTecnicos.dados (None, a table, or NoAttr after del)
    cached_file,  \* DashboardTecnicos.cached_file
    cache,        \* entries of st.cache_data for carregar_dados_cache_alt, LRU first
    cacheSimple,  \* set of entries of st.cache_data for carregar_dados_cache
    ret,          \* outcome of the last loader or carregar_dados call
    out           \* what the last report run produced

vars == <<cell, normOut, disk, dados, cached_file, cache, cacheSimple, ret, out>>

None == [kind |-> "None"]
Pending == [kind |-> "pending"]
NoCall == [op |-> "none"]      \* ret before any call
SemRelatorio == [op |-> "none", msgs |-> <<>>]      \* out before any report

(***************************************************************************)
(* Bounds of the model.                                                    *)
(***************************************************************************)
MaxCellLen == 4      \* longest free-form text cell given to the normalizer
MaxRows == 3         \* most rows of a table given to the reports

(***************************************************************************)
(* Numbers.  A parsed decimal is sign, mantissa and number of fraction     *)
(* digits, with trailing fraction zeros removed so that equal values are   *)
(* equal records (1,50 and 1,5 are the same number).                       *)
(***************************************************************************)
NaN == [kind |-> "nan"]

RECURSIVE TrimZeros(_, _)
TrimZeros(m, e) ==
    IF e > 0 /\ m % 10 = 0 THEN TrimZeros(m \div 10, e - 1) ELSE [m |-> m, e |-> e]

Number(neg, m, e) ==
    LET t == TrimZeros(m, e)
    IN  [kind |-> "num", neg |-> (neg /\ t.m # 0), m |-> t.m, e |-> t.e]

Zero == Number(FALSE, 0, 0)

Digits == {"0", "1", "2", "3", "4", "5", "6", "7", "8", "9"}

DigitVal(c) ==
    CASE c = "0" -> 0 [] c = "1" -> 1 [] c = "2" -> 2 [] c = "3" -> 3
      [] c = "4" -> 4 [] c = "5" -> 5 [] c = "6" -> 6 [] c = "7" -> 7
      [] c = "8" -> 8 [] c = "9" -> 9

AllDigits(s) == \A i \in 1..Len(s) : s[i] \in Digits

RECURSIVE DigitsVal(_)
DigitsVal(s) ==
    IF s = <<>> THEN 0
    ELSE 10 * DigitsVal(SubSeq(s, 1, Len(s) - 1)) + DigitVal(s[Len(s)])

\* first position of character c in s, 0 when absent
IndexOf(s, c) ==
    IF \E i \in 1..Len(s) : s[i] = c
    THEN CHOOSE i \in 1..Len(s) : s[i] = c /\ \A j \in 1..(i - 1) : s[j] # c
    ELSE 0

(***************************************************************************)
(* Value normalizer: carregar_dados_cache_alt, the VALOR columns.          *)
(***************************************************************************)
DigitChar(d) ==
    CASE d = 0 -> "0" [] d = 1 -> "1" [] d = 2 -> "2" [] d = 3 -> "3"
      [] d = 4 -> "4" [] d = 5 -> "5" [] d = 6 -> "6" [] d = 7 -> "7"
      [] d = 8 -> "8" [] d = 9 -> "9"

\* the last k decimal digits of n
RECURSIVE UltimosDigitos(_, _)
UltimosDigitos(n, k) ==
    IF k = 0 THEN <<>>
    ELSE Append(UltimosDigitos(n \div 10, k - 1), DigitChar(n % 10))

RECURSIVE NumDigitos(_)
NumDigitos(n) == IF n < 10 THEN 1 ELSE 1 + NumDigitos(n \div 10)

RECURSIVE SemUltimos(_, _)
SemUltimos(n, k) == IF k = 0 THEN n ELSE SemUltimos(n \div 10, k - 1)

\* str(x) of a float: the integer digits, the point and the fraction
\* digits, "0" when there is none (100.0, 12.5, 1234.56)
ReprFloat(v) ==
    LET ip == SemUltimos(v.m, v.e)
    IN  (IF v.neg THEN <<"-">> ELSE <<>>)
        \o UltimosDigitos(ip, NumDigitos(ip)) \o <<".">>
        \o (IF v.e = 0 THEN <<"0">> ELSE UltimosDigitos(v.m, v.e))

\* Series.astype(str): a missing cell becomes the text "nan", a number
\* its float text
AsTypeStr(c) ==
    IF c.kind = "nan" THEN <<"n", "a", "n">>
    ELSE IF c.kind = "num" THEN ReprFloat(c)
    ELSE c.s

\* .str.replace(r'[R$.]', '', regex=True): every R, $ and . is deleted
ReplaceRSDotNoDot(s) == SelectSeq(s, LAMBDA ch : ch \notin {"R", "$"})
ReplaceRSDot(s) == SelectSeq(s, LAMBDA ch : ch \notin {"R", "$", "."})

\* .str.replace(',', '.', regex=False)
ReplaceComma(s) == [i \in 1..Len(s) |-> IF s[i] = "," THEN "." ELSE s[i]]

RECURSIVE LStrip(_)
LStrip(s) == IF s # <<>> /\ Head(s) = " " THEN LStrip(Tail(s)) ELSE s

RECURSIVE RStrip(_)
RStrip(s) ==
    IF s # <<>> /\ s[Len(s)] = " " THEN RStrip(SubSeq(s, 1, Len(s) - 1)) ELSE s

\* .str.strip()
StrStrip(s) == LStrip(RStrip(s))

\* pd.to_numeric(..., errors='coerce') on one text: an optional sign, digits
\* with at most one decimal point and at least one digit; anything else
\* (the empty text and "nan" included) is coerced to NaN
ToNumeric(s) ==
    LET signed == s # <<>> /\ Head(s) \in {"-", "+"}
        body   == IF signed THEN Tail(s) ELSE s
        dot    == IndexOf(body, ".")
        ip     == IF dot = 0 THEN body ELSE SubSeq(body, 1, dot - 1)
        fp     == IF dot = 0 THEN <<>> ELSE SubSeq(body, dot + 1, Len(body))
    IN  IF AllDigits(ip) /\ AllDigits(fp) /\ Len(ip) + Len(fp) > 0
        THEN Number(signed /\ Head(s) = "-", DigitsVal(ip \o fp), Len(fp))
        ELSE NaN

\* .fillna(0)
FillNa0(v) == IF v.kind = "nan" THEN Zero ELSE v

\* lines 146-153, for one cell of a VALOR column
NormalizaValor(c) ==
    FillNa0(ToNumeric(StrStrip(ReplaceComma(ReplaceRSDot(AsTypeStr(c))))))

(***************************************************************************)
(* Group classifier: GRUPOS_BASES and get_grupo_base.                      *)
(***************************************************************************)
GRUPOS_BASES ==
    << [grupo |-> "Instalação",
        bases |-> {"BASE BAURU", "BASE BOTUCATU", "BASE CAMPINAS", "BASE LIMEIRA",
                   "BASE PAULINIA", "BASE PIRACICABA", "BASE RIBEIRAO PRETO",
                   "BASE SAO JOSE DO RIO PRETO", "BASE SOROCABA", "BASE SUMARE",
                   "GPON BAURU", "GPON RIBEIRAO PRETO"}],
       [grupo |-> "Manutenção",
        bases |-> {"BASE ARARAS VT", "BASE BOTUCATU VT", "BASE MDU ARARAS",
                   "BASE MDU BAURU", "BASE MDU MOGI", "BASE MDU PIRACICABA",
                   "BASE MDU SJRP", "BASE PIRACICABA VT", "BASE RIBEIRÃO VT",
                   "BASE SERTAOZINHO VT", "BASE SUMARE VT", "BASE VAR BAURU",
                   "BASE VAR PIRACICABA", "BASE VAR SUMARE"}],
       [grupo |-> "Desconexão",
        bases |-> {"DESCONEXAO", "DESCONEXÃO BOTUCATU", "DESCONEXÃO CAMPINAS",
                   "DESCONEXAO RIBEIRAO PRETO"}] >>

get_grupo_base_sem_padrao(base) ==
    IF \E i \in 1..Len(GRUPOS_BASES) : base \in GRUPOS_BASES[i].bases
    THEN GRUPOS_BASES[CHOOSE i \in 1..Len(GRUPOS_BASES) :
                        base \in GRUPOS_BASES[i].bases].grupo
    ELSE base

\* the first group, in dictionary order, whose list holds the base; else "Outros"
get_grupo_base(base) ==
    IF \E i \in 1..Len(GRUPOS_BASES) : base \in GRUPOS_BASES[i].bases
    THEN GRUPOS_BASES[CHOOSE i \in 1..Len(GRUPOS_BASES) :
                        /\ base \in GRUPOS_BASES[i].bases
                        /\ \A j \in 1..(i - 1) : base \notin GRUPOS_BASES[j].bases].grupo
    ELSE "Outros"

(***************************************************************************)
(* DashboardTecnicos.__init__: the attributes that configure the loader.   *)
(***************************************************************************)
pasta_dados == "Dados_excel"

colunas_necessarias ==
    <<"TECNICO", "DATA_TOA", "CONTRATO", "STATUS",
      "TIPO DE SERVIÇO", "VALOR TÉCNICO", "VALOR EMPRESA", "BASE">>

dtypes ==
    [c \in {"TECNICO", "BASE", "STATUS", "TIPO DE SERVIÇO", "CONTRATO",
            "VALOR TÉCNICO", "VALOR EMPRESA"} |->
        IF c \in {"VALOR TÉCNICO", "VALOR EMPRESA"} THEN "float32" ELSE "category"]

Range(f) == {f[i] : i \in DOMAIN f}

CategoryCols == {c \in DOMAIN dtypes : dtypes[c] = "category"}

NaoInformado == "Não Informado"

(***************************************************************************)
(* Cells of the source file.  A cell is NaN (missing) or a text cell       *)
(* [kind |-> "str", ...]: s is the text; in the BASE column s is the text  *)
(* without its surrounding blanks and l, r count the blanks on each side;  *)
(* in DATA_TOA campos lists the numeric fields of the text, day first, and *)
(* is empty when the text is not a date.                                   *)
(***************************************************************************)
NaT == [kind |-> "NaT"]
Date(n) == [kind |-> "date", ord |-> n]

Str(t) == [kind |-> "str", s |-> t]

FillNaNada(c) == c

\* Series.fillna('Não Informado') on one cell
FillNaInformado(c) == IF c.kind = "nan" THEN Str(NaoInformado) ELSE c

\* .str.strip() on one BASE cell: the text without its surrounding blanks;
\* a null stays null
StrStripBase(c) == IF c.kind = "nan" THEN c ELSE Str(c.s)

\* a null cell of a text column as it shows in a loaded table; no text of
\* the files spells it
Nulo == "<NA>"

\* the value a text cell has in the loaded table
TextoDe(c) == IF c.kind = "nan" THEN Nulo ELSE c.s

\* astype('float32') of a normalized amount, in centavos
RECURSIVE Pow10(_)
Pow10(n) == IF n = 0 THEN 1 ELSE 10 * Pow10(n - 1)

AsFloat32(v) ==
    LET mag == IF v.e <= 2 THEN v.m * Pow10(2 - v.e) ELSE v.m \div Pow10(v.e - 2)
    IN  IF v.neg THEN 0 - mag ELSE mag

\* pd.to_datetime(..., dayfirst=True, errors='coerce') on one cell: the day
\* of the year, NaT for a missing or unparseable cell
ToDatetime(c) ==
    IF c.kind = "nan" THEN NaT
    ELSE IF Len(c.campos) = 2 /\ c.campos[1] \in 1..31 /\ c.campos[2] \in 1..12
         THEN Date((c.campos[2] - 1) * 31 + c.campos[1])
         ELSE NaT

(***************************************************************************)
(* Files.  A file name is its stem and its extension.  A file that holds a *)
(* table is the set of its column names and its rows, each row named by    *)
(* its position in CatalogoLinhas, the source rows the model draws from.   *)
(***************************************************************************)
Arquivo(stem, ext) == [stem |-> stem, ext |-> ext]

Txt(t) == [kind |-> "str", s |-> t]
BaseTxt(t, l, r) == [kind |-> "str", s |-> t, l |-> l, r |-> r]
DataTxt(campos) == [kind |-> "str", campos |-> campos]

Linha(tec, data, contrato, status, tipo, vt, ve, base) ==
    [c \in Range(colunas_necessarias) |->
        CASE c = "TECNICO" -> tec
          [] c = "DATA_TOA" -> data
          [] c = "CONTRATO" -> contrato
          [] c = "STATUS" -> status
          [] c = "TIPO DE SERVIÇO" -> tipo
          [] c = "VALOR TÉCNICO" -> vt
          [] c = "VALOR EMPRESA" -> ve
          [] c = "BASE" -> base]

Tabela(linhas) ==
    [kind |-> "table", columns |-> Range(colunas_necessarias), linhas |-> linhas]

R50 == Txt(<<"5", "0">>)
R100 == Txt(<<"R", "$", " ", "1", "0", "0", ",", "0", "0">>)
R200 == Txt(<<"R", "$", "2", "0", "0">>)
R1234 == Txt(<<"R", "$", " ", "1", ".", "2", "3", "4", ",", "5", "6">>)
RTexto == Txt(<<"-">>)

CatalogoLinhas ==
    << Linha(Txt("T1"), DataTxt(<<1, 2>>), Txt("C1"), Txt("Executado"),
             Txt("VISITA TECNICA"), R50, R100, BaseTxt("BASE BAURU", 0, 1)),
       Linha(Txt("T1"), DataTxt(<<3, 2>>), Txt("C2"), Txt("Executado"),
             Txt("DESCONEXAO"), R50, R200, BaseTxt("DESCONEXAO", 0, 0)),
       Linha(Txt("T2"), DataTxt(<<3, 2>>), Txt("C2"), Txt("Pendente"),
             Txt("Desconexão"), R100, R100, BaseTxt("DESCONEXAO", 0, 0)),
       Linha(Txt("T2"), DataTxt(<<>>), NaN, Txt("Pendente"),
             NaN, NaN, R1234, NaN),
       Linha(Txt("T3"), NaN, Txt("C3"), Txt("Executado"),
             Txt("DESCONEXAO"), R100, R50, BaseTxt("BASE X", 1, 0)),
       Linha(Txt("T2"), DataTxt(<<1, 2>>), Txt("C1"), Txt("Executado"),
             Txt("VISITA TECNICA"), R50, R100, BaseTxt("BASE BAURU", 0, 0)),
       Linha(Txt("T3"), DataTxt(<<2, 1>>), Txt("C4"), Txt("Pendente"),
             Txt("VISITA TECNICA"), RTexto, RTexto, BaseTxt("BASE BAURU", 0, 0)),
       Linha(NaN, DataTxt(<<2, 1>>), Txt("C3"), Txt("Executado"),
             Txt("VISITA TECNICA"), R50, R200, BaseTxt("BASE X", 0, 0)),
       Linha(Txt("T1"), DataTxt(<<4, 2>>), Txt("C4"), Txt("Executado"),
             Txt("VISITA TECNICA"), R50, R100, BaseTxt("", 2, 0)) >>

(***************************************************************************)
(* carregar_dados_cache_alt, the uncached body.  The outcome is either     *)
(* [raised |-> TRUE, erro] or [raised |-> FALSE, value |-> df], where a df *)
(* is [columns, rows, cats]: cats gives, for each categorical column, the  *)
(* categories fixed by astype('category').                                 *)
(***************************************************************************)
Raise(e) == [raised |-> TRUE, erro |-> e]
Return(v) == [raised |-> FALSE, value |-> v]

EndsWith(nome, ext) == nome.ext = ext

\* os.path.join(pasta_dados, nome_arquivo): the directory of the model is
\* Dados_excel, which both spellings name; any other folder holds no file
NaPastaDeDados(pasta) == pasta \in {"Dados_excel", "./Dados_excel"}

\* pd.read_csv / pd.read_excel with usecols=colunas: a missing file, a
\* content that is no table and a requested column the file lacks all raise
ReadFile(d, nome, colunas) ==
    IF nome \notin DOMAIN d THEN Raise("FileNotFoundError")
    ELSE IF d[nome].kind # "table" THEN Raise("ParserError")
    ELSE IF ~ (Range(colunas) \subseteq d[nome].columns) THEN Raise("ValueError")
    ELSE Return([columns |-> Range(colunas),
                 rows |-> [i \in 1..Len(d[nome].linhas) |->
                             [c \in Range(colunas) |->
                                 CatalogoLinhas[d[nome].linhas[i]][c]]]])

\* lines 143-168 on one row: a VALOR cell becomes an amount, a categorical
\* cell its text with the nulls filled, DATA_TOA is left as read, and any
\* other cell keeps its text or its null
NormalizaLinha(r, tipos) ==
    [c \in DOMAIN r |->
        IF c \in {"VALOR TÉCNICO", "VALOR EMPRESA"}
        THEN (IF c \in DOMAIN tipos /\ tipos[c] = "float32"
              THEN AsFloat32(NormalizaValor(r[c]))
              ELSE NormalizaValor(r[c]))
        ELSE IF c = "BASE" THEN TextoDe(StrStripBase(FillNaInformado(r[c])))
        ELSE IF c \in DOMAIN tipos /\ tipos[c] = "category"
        THEN TextoDe(FillNaInformado(r[c]))
        ELSE IF c = "DATA_TOA" THEN r[c]
        ELSE TextoDe(r[c])]

CarregaAlt(d, pasta, nome, colunas, tipos) ==
    IF ~ EndsWith(nome, "xlsx") /\ ~ EndsWith(nome, "csv")
    THEN Raise("UnboundLocalError")
    ELSE LET lido == IF NaPastaDeDados(pasta) THEN ReadFile(d, nome, colunas)
                     ELSE Raise("FileNotFoundError")
         IN  IF lido.raised THEN lido
             ELSE LET linhas == [i \in 1..Len(lido.value.rows) |->
                                    NormalizaLinha(lido.value.rows[i], tipos)]
                  IN  Return([columns |-> lido.value.columns,
                              rows |-> linhas,
                              cats |-> [c \in {k \in DOMAIN tipos :
                                                 tipos[k] = "category"
                                                 /\ k \in lido.value.columns} |->
                                          {linhas[i][c] : i \in 1..Len(linhas)}]])

\* carregar_dados_cache, the uncached body: no branch for another extension,
\* so the function falls off its end and returns None
CarregaSimples(d, nome, colunas) ==
    IF EndsWith(nome, "csv") \/ EndsWith(nome, "xlsx")
    THEN ReadFile(d, nome, colunas)
    ELSE Return(None)

(***************************************************************************)
(* Specification of the value normalizer: one source cell, drawn from the  *)
(* free-form texts over NormAlphabet and from composed currency texts, is  *)
(* normalized once.                                                        *)
(***************************************************************************)
NormAlphabet == {"R", "$", " ", ".", ",", "1", "2", "-"}

FreeTexts == UNION {[1..k -> NormAlphabet] : k \in 0..MaxCellLen}

CurrencyTexts ==
    {p \o i \o f \o q :
        p \in {<<>>, <<"R", "$">>, <<"R", "$", " ">>, <<" ", "R", "$", " ">>},
        i \in {<<"7">>, <<"1", "2">>, <<"1", ".", "2", "3", "4">>,
               <<"1", "2", ".", "3", "4", "5">>, <<"1", "2", "3", "4">>},
        f \in {<<>>, <<",", "5">>, <<",", "5", "6">>, <<",", "0", "0">>},
        q \in {<<>>, <<" ">>}}

NormCells == {NaN} \cup {Str(t) : t \in FreeTexts \cup CurrencyTexts}

NoDisk == [n \in {} |-> None]

InitNorm ==
    /\ cell \in NormCells
    /\ normOut = Pending
    /\ disk = NoDisk
    /\ dados = None
    /\ cached_file = None
    /\ cache = <<>>
    /\ cacheSimple = {}
    /\ ret = NoCall
    /\ out = SemRelatorio

Normalizar ==
    /\ normOut = Pending
    /\ normOut' = NormalizaValor(cell)
    /\ UNCHANGED <<cell, disk, dados, cached_file, cache, cacheSimple, ret, out>>

NextNorm == Normalizar

SpecNorm == InitNorm /\ [][NextNorm]_vars

(***************************************************************************)
(* What a Brazilian-format currency text denotes, read off the format and  *)
(* not off the normalizer: an optional R$, an integer part that is plain   *)
(* digits or groups of three separated by '.', an optional ',' and         *)
(* fraction digits, blanks around.                                         *)
(***************************************************************************)
BRBody(s) ==
    LET t == StrStrip(s)
    IN  IF Len(t) >= 2 /\ t[1] = "R" /\ t[2] = "$"
        THEN LStrip(SubSeq(t, 3, Len(t)))
        ELSE t

BRInt(u) == IF IndexOf(u, ",") = 0 THEN u ELSE SubSeq(u, 1, IndexOf(u, ",") - 1)

BRFrac(u) ==
    IF IndexOf(u, ",") = 0 THEN <<>> ELSE SubSeq(u, IndexOf(u, ",") + 1, Len(u))

BRGrouped(ip) ==
    /\ Len(ip) % 4 # 0
    /\ \A i \in 1..Len(ip) :
         IF (Len(ip) - i) % 4 = 3 THEN ip[i] = "." ELSE ip[i] \in Digits

BRValid(s) ==
    LET u == BRBody(s)
    IN  /\ BRInt(u) # <<>>
        /\ AllDigits(BRInt(u)) \/ BRGrouped(BRInt(u))
        /\ IndexOf(u, ",") = 0 \/ (BRFrac(u) # <<>> /\ AllDigits(BRFrac(u)))

BRDenota(s) ==
    LET u == BRBody(s)
    IN  Number(FALSE,
               DigitsVal(SelectSeq(BRInt(u), LAMBDA ch : ch \in Digits) \o BRFrac(u)),
               Len(BRFrac(u)))

\* the text that reaches pd.to_numeric for a cell
TextoLimpo(c) == StrStrip(ReplaceComma(ReplaceRSDot(AsTypeStr(c))))

\* C5: every source cell is normalized to a number and no error is raised:
\* a Brazilian-format currency text to the number it denotes, a missing cell
\* and a text that pd.to_numeric cannot parse to 0.
T_C5_NormalizaValor ==
    normOut # Pending =>
        /\ normOut.kind = "num"
        /\ (cell.kind = "str" /\ BRValid(cell.s)) => normOut = BRDenota(cell.s)
        /\ (cell.kind = "nan" \/ ToNumeric(TextoLimpo(cell)).kind = "nan")
              => normOut = Zero

\* C5 witness: 'R$ 1.234,56' has been normalized to 1234.56
W_C5_NormalizaValor ==
    /\ cell = Str(<<"R", "$", " ", "1", ".", "2", "3", "4", ",", "5", "6">>)
    /\ normOut = Number(FALSE, 123456, 2)

(***************************************************************************)
(* st.cache_data around carregar_dados_cache_alt (max_entries=3) and       *)
(* around carregar_dados_cache.  The key is made of the hashed arguments;  *)
(* a call that raises stores nothing; a stored value is handed back as a   *)
(* copy, so what the caller does to it never reaches the entry.  An entry  *)
(* carries its age in seconds; it is served while its age is below ttl,    *)
(* and the entries that have expired are dropped when a new one is stored. *)
(***************************************************************************)
MAX_ENTRIES == 3
TTL == 3600

\* the step by which the model lets time pass
Passo == TTL \div 2

CacheKeySemTipos(pasta, nome, colunas, tipos) == <<pasta, nome, colunas>>
CacheKeySemNome(pasta, nome, colunas, tipos) == <<pasta, colunas, tipos>>
CacheKey(pasta, nome, colunas, tipos) == <<pasta, nome, colunas, tipos>>

CacheIndex(c, k) ==
    IF \E i \in 1..Len(c) : c[i].key = k
    THEN CHOOSE i \in 1..Len(c) : c[i].key = k
    ELSE 0

\* the sequence c without its i-th element
Remove(c, i) == SubSeq(c, 1, i - 1) \o SubSeq(c, i + 1, Len(c))

\* the entries that have not expired
Vivas(c) == SelectSeq(c, LAMBDA x : x.idade < TTL)

CacheInsertRecente(c, k, v) ==
    LET kept == IF Len(Vivas(c)) >= MAX_ENTRIES
                THEN SubSeq(Vivas(c), 1, Len(Vivas(c)) - 1) ELSE Vivas(c)
    IN  Append(kept, [key |-> k, value |-> v, idade |-> 0])

\* a new entry goes last; beyond max_entries the least recently used goes
CacheInsert(c, k, v) ==
    LET kept == IF Len(Vivas(c)) >= MAX_ENTRIES THEN Tail(Vivas(c)) ELSE Vivas(c)
    IN  Append(kept, [key |-> k, value |-> v, idade |-> 0])

\* one call of the cached carregar_dados_cache_alt: [res, cache, hit]
ChamaAlt(c, d, pasta, nome, colunas, tipos) ==
    LET k == CacheKey(pasta, nome, colunas, tipos)
        i == CacheIndex(c, k)
    IN  IF i # 0 /\ c[i].idade < TTL
        THEN [res |-> Return(c[i].value), cache |-> Append(Remove(c, i), c[i]),
              hit |-> TRUE]
        ELSE LET r == CarregaAlt(d, pasta, nome, colunas, tipos)
             IN  [res |-> r,
                  cache |-> IF r.raised THEN c ELSE CacheInsert(c, k, r.value),
                  hit |-> FALSE]

\* one call of the cached carregar_dados_cache; _self is left out of the key
\* and the cache has no bound
ChamaSimples(c, d, nome, colunas) ==
    LET k == <<nome, colunas>>
    IN  IF \E x \in c : x.key = k
        THEN [res |-> Return((CHOOSE x \in c : x.key = k).value), cache |-> c,
              hit |-> TRUE]
        ELSE LET r == CarregaSimples(d, nome, colunas)
             IN  [res |-> r,
                  cache |-> IF r.raised THEN c
                            ELSE c \cup {[key |-> k, value |-> r.value]},
                  hit |-> FALSE]

(***************************************************************************)
(* DashboardTecnicos.carregar_dados.                                       *)
(***************************************************************************)
\* the state of the attribute after `del self.dados`
NoAttr == [kind |-> "NoAttr"]

PosProcessaSemGrupo(df) ==
    [columns |-> df.columns \cup {"GRUPO"},
     rows |-> [i \in 1..Len(df.rows) |->
                 [c \in df.columns \cup {"GRUPO"} |->
                    IF c = "GRUPO" THEN df.rows[i]["BASE"]
                    ELSE IF c = "DATA_TOA" THEN ToDatetime(df.rows[i][c])
                    ELSE df.rows[i][c]]],
     cats |-> df.cats]

\* lines 194-206: dates parsed day first, then the GRUPO column
PosProcessa(df) ==
    [columns |-> df.columns \cup {"GRUPO"},
     rows |-> [i \in 1..Len(df.rows) |->
                 [c \in df.columns \cup {"GRUPO"} |->
                    IF c = "GRUPO" THEN get_grupo_base(df.rows[i]["BASE"])
                    ELSE IF c = "DATA_TOA" THEN ToDatetime(df.rows[i][c])
                    ELSE df.rows[i][c]]],
     cats |-> df.cats]

\* outcome of one call: the value returned, the error reported through
\* st.error ("" when none), and how the table was obtained
RetLoad(nome, v, e, via) ==
    [op |-> "carregar_dados", nome |-> nome, value |-> v, erro |-> e, via |-> via]

\* carregar_dados with line 177 testing only that a table is held
carregar_dados_sem_nome(self_dados, self_cached_file, nome) ==
    IF self_cached_file = nome /\ self_dados = NoAttr
    THEN \* line 177 reads the deleted attribute
         /\ ret' = RetLoad(nome, FALSE, "AttributeError", "")
         /\ dados' = self_dados
         /\ cached_file' = self_cached_file
         /\ UNCHANGED cache
    ELSE IF self_dados # None /\ self_dados # NoAttr
    THEN /\ ret' = RetLoad(nome, TRUE, "", "cached_file")
         /\ dados' = self_dados
         /\ cached_file' = self_cached_file
         /\ UNCHANGED cache
    ELSE IF self_dados = NoAttr
    THEN \* line 181 reads the deleted attribute
         /\ ret' = RetLoad(nome, FALSE, "AttributeError", "")
         /\ dados' = self_dados
         /\ cached_file' = self_cached_file
         /\ UNCHANGED cache
    ELSE LET call == ChamaAlt(cache, disk, pasta_dados, nome,
                              colunas_necessarias, dtypes)
         IN  /\ cache' = call.cache
             /\ IF call.res.raised
                THEN \* line 182 has deleted the attribute of a loaded instance
                     /\ dados' = IF self_dados = None THEN None ELSE NoAttr
                     /\ cached_file' = self_cached_file
                     /\ ret' = RetLoad(nome, FALSE, call.res.erro, "")
                ELSE IF "BASE" \notin call.res.value.columns
                THEN /\ dados' = call.res.value
                     /\ cached_file' = nome
                     /\ ret' = RetLoad(nome, FALSE, "KeyError", "")
                ELSE /\ dados' = PosProcessa(call.res.value)
                     /\ cached_file' = nome
                     /\ ret' = RetLoad(nome, TRUE, "",
                                        IF call.hit THEN "cache" ELSE "read")

\* carregar_dados on an instance whose attributes are self_dados and
\* self_cached_file
carregar_dados(self_dados, self_cached_file, nome) ==
    IF self_cached_file = nome /\ self_dados = NoAttr
    THEN \* line 177 reads the deleted attribute
         /\ ret' = RetLoad(nome, FALSE, "AttributeError", "")
         /\ dados' = self_dados
         /\ cached_file' = self_cached_file
         /\ UNCHANGED cache
    ELSE IF self_cached_file = nome /\ self_dados # None
    THEN /\ ret' = RetLoad(nome, TRUE, "", "cached_file")
         /\ dados' = self_dados
         /\ cached_file' = self_cached_file
         /\ UNCHANGED cache
    ELSE IF self_dados = NoAttr
    THEN \* line 181 reads the deleted attribute
         /\ ret' = RetLoad(nome, FALSE, "AttributeError", "")
         /\ dados' = self_dados
         /\ cached_file' = self_cached_file
         /\ UNCHANGED cache
    ELSE LET call == ChamaAlt(cache, disk, pasta_dados, nome,
                              colunas_necessarias, dtypes)
         IN  /\ cache' = call.cache
             /\ IF call.res.raised
                THEN \* line 182 has deleted the attribute of a loaded instance
                     /\ dados' = IF self_dados = None THEN None ELSE NoAttr
                     /\ cached_file' = self_cached_file
                     /\ ret' = RetLoad(nome, FALSE, call.res.erro, "")
                ELSE IF "BASE" \notin call.res.value.columns
                THEN /\ dados' = call.res.value
                     /\ cached_file' = nome
                     /\ ret' = RetLoad(nome, FALSE, "KeyError", "")
                ELSE /\ dados' = PosProcessa(call.res.value)
                     /\ cached_file' = nome
                     /\ ret' = RetLoad(nome, TRUE, "",
                                        IF call.hit THEN "cache" ELSE "read")

\* a call of carregar_dados on the current instance
CarregarDados(nome) ==
    /\ carregar_dados(dados, cached_file, nome)
    /\ UNCHANGED <<cell, normOut, disk, cacheSimple, out>>

\* DashboardTecnicos(): a new instance; the caches belong to the process
NovaInstancia ==
    /\ dados' = None
    /\ cached_file' = None
    /\ ret' = NoCall
    /\ UNCHANGED <<cell, normOut, disk, cache, cacheSimple, out>>

\* a direct call of the static cached loader
CarregarDadosCacheAlt(nome) ==
    LET call == ChamaAlt(cache, disk, pasta_dados, nome, colunas_necessarias, dtypes)
    IN  /\ cache' = call.cache
        /\ ret' = [op |-> "carregar_dados_cache_alt", nome |-> nome,
                   raised |-> call.res.raised, hit |-> call.hit,
                   value |-> IF call.res.raised THEN None ELSE call.res.value]
        /\ UNCHANGED <<cell, normOut, disk, dados, cached_file, cacheSimple, out>>

\* a direct call of the static cached loader with any arguments; antes is
\* the number of live entries the cache held when the call was made
ChamarCacheAlt(pasta, nome, colunas, tipos) ==
    LET call == ChamaAlt(cache, disk, pasta, nome, colunas, tipos)
    IN  /\ cache' = call.cache
        /\ ret' = [op |-> "carregar_dados_cache_alt", nome |-> nome,
                   pasta |-> pasta, colunas |-> colunas, tipos |-> tipos,
                   antes |-> Len(Vivas(cache)),
                   raised |-> call.res.raised, hit |-> call.hit,
                   value |-> IF call.res.raised THEN None ELSE call.res.value]
        /\ UNCHANGED <<cell, normOut, disk, dados, cached_file, cacheSimple, out>>

\* time passes: every entry of the loader cache ages by one step (an entry
\* that has expired stays expired)
Tique ==
    /\ \E i \in 1..Len(cache) : cache[i].idade < TTL
    /\ cache' = [i \in 1..Len(cache) |->
                    [cache[i] EXCEPT !.idade = IF @ + Passo >= TTL THEN TTL
                                               ELSE @ + Passo]]
    /\ UNCHANGED <<cell, normOut, disk, dados, cached_file, cacheSimple, ret, out>>

\* the file is replaced in the directory by one that holds other rows
Regrava(nome, linhas) ==
    /\ nome \in DOMAIN disk
    /\ disk[nome].kind = "table"
    /\ disk[nome].linhas # linhas
    /\ disk' = [disk EXCEPT ![nome].linhas = linhas]
    /\ UNCHANGED <<cell, normOut, dados, cached_file, cache, cacheSimple, ret, out>>

\* a direct call of the cached carregar_dados_cache
CarregarDadosCache(nome) ==
    LET call == ChamaSimples(cacheSimple, disk, nome, colunas_necessarias)
    IN  /\ cacheSimple' = call.cache
        /\ ret' = [op |-> "carregar_dados_cache", nome |-> nome,
                   raised |-> call.res.raised, hit |-> call.hit,
                   value |-> IF call.res.raised THEN None ELSE call.res.value]
        /\ UNCHANGED <<cell, normOut, disk, dados, cached_file, cache, out>>

(***************************************************************************)
(* The input directory of the loader specification.                        *)
(***************************************************************************)
DiscoCarga ==
    LET a == Arquivo("a", "csv")
        b == Arquivo("b", "xlsx")
        g == Arquivo("g", "csv")
        h == Arquivo("h", "xlsx")
        c == Arquivo("c", "csv")
        u == Arquivo("u", "csv")
        e == Arquivo("e", "txt")
    IN  [n \in {a, b, g, h, c, u, e} |->
           CASE n = a -> Tabela(<<1, 4>>)
             [] n = b -> Tabela(<<2>>)
             [] n = g -> Tabela(<<5>>)
             [] n = h -> Tabela(<<>>)
             [] n = c -> [kind |-> "table",
                          columns |-> Range(colunas_necessarias) \ {"BASE"},
                          linhas |-> <<3>>]
             [] n = u -> [kind |-> "unreadable"]
             [] n = e -> Tabela(<<6>>)]

\* the names a caller may pass: the files above and one that does not exist
Nomes == DOMAIN DiscoCarga \cup {Arquivo("m", "csv")}

\* the names given to the loader that carregar_dados does not use
NomesSimples == {Arquivo("a", "csv"), Arquivo("e", "txt"), Arquivo("m", "csv")}

Init ==
    /\ cell = NaN
    /\ normOut = Pending
    /\ disk = DiscoCarga
    /\ dados = None
    /\ cached_file = None
    /\ cache = <<>>
    /\ cacheSimple = {}
    /\ ret = NoCall
    /\ out = SemRelatorio

Next ==
    \/ NovaInstancia
    \/ \E nome \in Nomes : CarregarDados(nome)
    \/ \E nome \in Nomes : CarregarDadosCacheAlt(nome)
    \/ \E nome \in NomesSimples : CarregarDadosCache(nome)

Spec == Init /\ [][Next]_vars

(***************************************************************************)
(* get_grupo_base as a function of its input: every listed site, labels    *)
(* that are close to a listed one or that name something else, and a cell  *)
(* that holds no text.                                                     *)
(***************************************************************************)
RotulosListados == UNION {GRUPOS_BASES[i].bases : i \in 1..Len(GRUPOS_BASES)}

RotulosNaoListados ==
    {NaoInformado, "", "Outros", "Instalação", "Manutenção", "Desconexão",
     "base bauru", "BASE BAURU ", " BASE BAURU", "BASE", "BAURU", "GPON",
     "BASE X", "BASE MDU", "BASE BAURU VT", "BASE CAMPINAS VT", "GPON CAMPINAS",
     "DESCONEXÃO", "DESCONEXAO BOTUCATU", "DESCONEXAO CAMPINAS",
     "DESCONEXÃO RIBEIRAO PRETO", "BASE RIBEIRAO VT", "BASE RIBEIRÃO PRETO",
     "BASE SUMARE  VT", "0"}

\* `base in bases` on a cell: a cell without text equals no label
RotuloDe(c) == IF c.kind = "str" THEN c.s ELSE Nulo

InitGrupo ==
    /\ cell \in {Str(t) : t \in RotulosListados \cup RotulosNaoListados} \cup {NaN}
    /\ normOut = Pending
    /\ disk = DiscoCarga
    /\ dados = None
    /\ cached_file = None
    /\ cache = <<>>
    /\ cacheSimple = {}
    /\ ret = NoCall
    /\ out = SemRelatorio

\* one call of get_grupo_base on the cell
Classificar ==
    /\ normOut = Pending
    /\ normOut' = [kind |-> "grupo", grupo |-> get_grupo_base(RotuloDe(cell))]
    /\ UNCHANGED <<cell, disk, dados, cached_file, cache, cacheSimple, ret, out>>

NextGrupo == Classificar

SpecGrupo == InitGrupo /\ [][NextGrupo]_vars

(***************************************************************************)
(* Direct calls of the static cached loader whose arguments differ in one  *)
(* of the four: the folder spelled two ways, two files, the column list    *)
(* with and without TIPO DE SERVIÇO, the dtype mapping with and without    *)
(* CONTRATO.  d.csv lacks the column TIPO DE SERVIÇO.  A file may be       *)
(* replaced between two calls.                                             *)
(***************************************************************************)
colunas_sem_tipo == SelectSeq(colunas_necessarias, LAMBDA c : c # "TIPO DE SERVIÇO")

dtypes_sem_contrato == [c \in DOMAIN dtypes \ {"CONTRATO"} |-> dtypes[c]]

TabelaSemTipo(linhas) ==
    [kind |-> "table", columns |-> Range(colunas_sem_tipo), linhas |-> linhas]

DiscoCache ==
    LET a == Arquivo("a", "csv")
        b == Arquivo("b", "xlsx")
        d == Arquivo("d", "csv")
    IN  [n \in {a, b, d} |->
           CASE n = a -> Tabela(<<1>>)
             [] n = b -> Tabela(<<2>>)
             [] n = d -> TabelaSemTipo(<<3>>)]

\* the argument lists of the direct calls: <<folder, file, columns, dtypes>>
Chamadas ==
    { <<pasta_dados, Arquivo("a", "csv"), colunas_necessarias, dtypes>>,
      <<"./Dados_excel", Arquivo("a", "csv"), colunas_necessarias, dtypes>>,
      <<pasta_dados, Arquivo("b", "xlsx"), colunas_necessarias, dtypes>>,
      <<pasta_dados, Arquivo("a", "csv"), colunas_sem_tipo, dtypes>>,
      <<pasta_dados, Arquivo("a", "csv"), colunas_necessarias, dtypes_sem_contrato>>,
      <<pasta_dados, Arquivo("d", "csv"), colunas_necessarias, dtypes>>,
      <<pasta_dados, Arquivo("d", "csv"), colunas_sem_tipo, dtypes>>,
      <<"Outra_pasta", Arquivo("a", "csv"), colunas_necessarias, dtypes>> }

InitCache ==
    /\ cell = NaN
    /\ normOut = Pending
    /\ disk = DiscoCache
    /\ dados = None
    /\ cached_file = None
    /\ cache = <<>>
    /\ cacheSimple = {}
    /\ ret = NoCall
    /\ out = SemRelatorio

NextCache ==
    \/ \E k \in Chamadas : ChamarCacheAlt(k[1], k[2], k[3], k[4])
    \/ Regrava(Arquivo("a", "csv"), <<6>>)

SpecCache == InitCache /\ [][NextCache]_vars

(***************************************************************************)
(* carregar_dados over time: instances come and go, the entries of the     *)
(* loader cache age and expire, and a.csv may be replaced.                 *)
(***************************************************************************)
NextTTL ==
    \/ NovaInstancia
    \/ \E nome \in DOMAIN DiscoCache : CarregarDados(nome)
    \/ Tique
    \/ \E linhas \in {<<1>>, <<6>>} : Regrava(Arquivo("a", "csv"), linhas)

SpecTTL == InitCache /\ [][NextTTL]_vars

(***************************************************************************)
(* Claims about loading.                                                   *)
(***************************************************************************)
\* a single direct load of a file: the uncached loader, then the processing
\* of carregar_dados
CargaDireta(nome) ==
    LET r == CarregaAlt(disk, pasta_dados, nome, colunas_necessarias, dtypes)
    IN  IF r.raised THEN None ELSE PosProcessa(r.value)

\* the files that are readable and hold every required column
Carregaveis ==
    {n \in DOMAIN disk :
        /\ n.ext \in {"csv", "xlsx"}
        /\ disk[n].kind = "table"
        /\ Range(colunas_necessarias) \subseteq disk[n].columns}

\* the names whose load fails for the file itself: not found, unreadable
\* content, or an extension that is neither .csv nor .xlsx
Falham ==
    {n \in Nomes :
        n \notin DOMAIN disk \/ disk[n].kind # "table" \/ n.ext \notin {"csv", "xlsx"}}

\* C6: whenever carregar_dados has returned True, on the same or on a new
\* instance and whether the table came from the file or from the loader
\* cache, dados equals the table of a single direct load of that file.
T_C6_CargaIdempotente ==
    (ret.op = "carregar_dados" /\ ret.value) => dados = CargaDireta(ret.nome)

\* C6 witness: a non-empty table has been loaded a second time, the second
\* load being served from the loader cache
W_C6_CargaIdempotente ==
    /\ ret.op = "carregar_dados"
    /\ ret.value
    /\ ret.via = "cache"
    /\ Len(dados.rows) > 1
    /\ dados = CargaDireta(ret.nome)

\* C9 (the claim as stated): every call of carregar_dados that names a
\* readable file with all required columns returns True and leaves dados set
\* to that file's table, whatever calls came before on the instance.
P_C9_FalhaRecuperavel ==
    (ret.op = "carregar_dados" /\ ret.nome \in Carregaveis) =>
        (ret.value /\ dados = CargaDireta(ret.nome))

\* C10 (the claim as stated): a load that fails for the file itself makes
\* the loader raise, makes carregar_dados return False, and leaves no entry
\* for that name in the loader caches.
P_C10_FalhaNaoCacheada ==
    /\ (ret.op \in {"carregar_dados_cache", "carregar_dados_cache_alt"}
          /\ ret.nome \in Falham) => ret.raised
    /\ (ret.op = "carregar_dados" /\ ret.nome \in Falham) => ~ ret.value
    /\ \A n \in Falham :
          /\ \A i \in 1..Len(cache) : cache[i].key[2] # n
          /\ \A x \in cacheSimple : x.key[1] # n

\* the four arguments of the direct call recorded in r
Argumentos(r) == <<r.pasta, r.nome, r.colunas, r.tipos>>

\* the entries of c stored under exactly these four arguments
Guardadas(c, args) == {i \in 1..Len(c) : c[i].key = args}

\* what the pipeline yields for the direct call recorded in r on directory d
Pipeline(d, r) == CarregaAlt(d, r.pasta, r.nome, r.colunas, r.tipos)

\* the loader cache holds an entry for the file that has reached its ttl
Expirada(c, nome) ==
    \E i \in 1..Len(c) :
        /\ c[i].key = <<pasta_dados, nome, colunas_necessarias, dtypes>>
        /\ c[i].idade >= TTL

\* the step is a call of carregar_dados with a new outcome
PassoCarga == ret' # ret /\ ret'.op = "carregar_dados"

\* C12: a cached table older than the ttl is never served: a call of
\* carregar_dados that succeeds when the entry of the file has expired has
\* read the file again, on whatever instance it is made, and leaves the
\* table of the file as it is now.
P_C12_ExpiradaNaoServida ==
    [][(PassoCarga /\ ret'.value /\ Expirada(cache, ret'.nome)) =>
          /\ ret'.via = "read"
          /\ dados' = CargaDireta(ret'.nome)]_vars

\* c holds the entry e
Guarda(c, e) ==
    \E i \in 1..Len(c) :
        c[i].key = e.key /\ c[i].idade = e.idade /\ c[i].value = e.value

\* the latest direct call returned a table, so its key is the one used last
UsouPorUltimo(r) == r.op = "carregar_dados_cache_alt" /\ ~ r.raised

\* C13: the loader cache never holds more than three entries, and a call
\* with a fourth distinct key made when it holds three stores its table and
\* evicts exactly one entry, the least recently used: the other two stay,
\* with their tables, and the key used by the call before is among them.
T_C13_TresEntradas ==
    [][/\ Len(cache') <= MAX_ENTRIES
       /\ \A i, j \in 1..Len(cache') : cache'[i].key = cache'[j].key => i = j
       /\ (disk' = disk /\ ret'.op = "carregar_dados_cache_alt"
              /\ ~ ret'.hit /\ ~ ret'.raised /\ Len(cache) = MAX_ENTRIES) =>
             /\ Guardadas(cache, Argumentos(ret')) = {}
             /\ Len(cache') = MAX_ENTRIES
             /\ Guarda(cache', [key |-> Argumentos(ret'), value |-> ret'.value,
                                idade |-> 0])
             /\ \A i \in 2..Len(cache) : Guarda(cache', cache[i])
             /\ UsouPorUltimo(ret) => Guardadas(cache', Argumentos(ret)) # {}]_vars

\* a call with a new key has stored its table in a cache that held three
W_C13_TresEntradas ==
    /\ ret.op = "carregar_dados_cache_alt"
    /\ ~ ret.hit
    /\ ~ ret.raised
    /\ ret.antes = MAX_ENTRIES
    /\ Len(cache) = MAX_ENTRIES
    /\ cache[MAX_ENTRIES].key = Argumentos(ret)

\* the file is a readable .csv or .xlsx table that holds the technician,
\* site, status and contract columns and at least one monetary column
TemOMinimo(n) ==
    /\ n \in DOMAIN disk
    /\ n.ext \in {"csv", "xlsx"}
    /\ disk[n].kind = "table"
    /\ {"TECNICO", "BASE", "STATUS", "CONTRATO"} \subseteq disk[n].columns
    /\ disk[n].columns \cap {"VALOR TÉCNICO", "VALOR EMPRESA"} # {}

\* C14: the loader selects the required columns the file holds: a file with
\* the technician, site, status and contract columns and at least one
\* monetary column loads, and the table has exactly the required columns
\* present in the file (and GRUPO), none fabricated.  A call that failed
\* because the instance had lost its dados attribute is left aside.
P_C14_ColunasPresentes ==
    (ret.op = "carregar_dados" /\ TemOMinimo(ret.nome)
       /\ ret.erro # "AttributeError") =>
        /\ ret.value
        /\ dados.columns =
             (disk[ret.nome].columns \cap Range(colunas_necessarias)) \cup {"GRUPO"}

\* the instance holds a loaded table
Carregado == dados # None /\ dados # NoAttr /\ cached_file \in DOMAIN disk

\* the row of the file from which the i-th row of dados was read
LinhaDoArquivo(i) == CatalogoLinhas[disk[cached_file].linhas[i]]

\* the cell of the file holds no amount: it is empty or is not a number
SemValor(c) == c.kind = "nan" \/ c = RTexto

\* C15: after a successful load no categorical column (TECNICO, BASE,
\* STATUS, TIPO DE SERVIÇO, CONTRATO) holds a null, in its cells or among
\* its categories, a cell that was empty in the file reading 'Não
\* Informado'; and VALOR TÉCNICO and VALOR EMPRESA hold numbers only, 0
\* where the file had no amount.
T_C15_SemNulos ==
    Carregado =>
       \A i \in 1..Len(dados.rows) :
          /\ \A c \in CategoryCols :
                /\ dados.rows[i][c] # Nulo
                /\ Nulo \notin dados.cats[c]
                /\ LinhaDoArquivo(i)[c].kind = "nan" => dados.rows[i][c] = NaoInformado
          /\ \A c \in {"VALOR TÉCNICO", "VALOR EMPRESA"} :
                /\ dados.rows[i][c] \in Int
                /\ SemValor(LinhaDoArquivo(i)[c]) => dados.rows[i][c] = 0

\* a loaded table with a row that had an empty site, an empty contract and
\* an empty amount in the file, and a row whose amounts are not numbers
W_C15_SemNulos ==
    /\ Carregado
    /\ \E i \in 1..Len(dados.rows) :
          /\ LinhaDoArquivo(i)["BASE"].kind = "nan"
          /\ LinhaDoArquivo(i)["CONTRATO"].kind = "nan"
          /\ LinhaDoArquivo(i)["VALOR TÉCNICO"].kind = "nan"
    /\ \E i \in 1..Len(dados.rows) : LinhaDoArquivo(i)["VALOR EMPRESA"] = RTexto

\* the site of the i-th row of the file, null-filled and stripped
BaseNormalizada(i) ==
    IF LinhaDoArquivo(i)["BASE"].kind = "nan" THEN NaoInformado
    ELSE LinhaDoArquivo(i)["BASE"].s

\* C17: in every state after a successful load, before and after any
\* report, the GRUPO of each row is get_grupo_base of the row's site as
\* null-filled and stripped by the loader.
T_C17_GrupoDaBase ==
    (Carregado /\ "GRUPO" \in dados.columns) =>
       /\ Len(dados.rows) = Len(disk[cached_file].linhas)
       /\ \A i \in 1..Len(dados.rows) :
             /\ dados.rows[i]["BASE"] = BaseNormalizada(i)
             /\ dados.rows[i]["GRUPO"] = get_grupo_base(BaseNormalizada(i))

\* a report has run on a table with a mapped site written with a trailing
\* blank in the file and with a row whose site was empty
W_C17_GrupoDaBase ==
    /\ Carregado
    /\ out.op = "mostrar_tabela_bases"
    /\ \E i \in 1..Len(dados.rows) :
          /\ LinhaDoArquivo(i)["BASE"].kind = "str"
          /\ LinhaDoArquivo(i)["BASE"].r > 0
          /\ dados.rows[i]["GRUPO"] = "Instalação"
    /\ \E i \in 1..Len(dados.rows) :
          /\ LinhaDoArquivo(i)["BASE"].kind = "nan"
          /\ dados.rows[i]["GRUPO"] = "Outros"

\* C18: get_grupo_base is total: for a site listed in GRUPOS_BASES it
\* returns the group whose list holds the site, and for any other input,
\* 'Não Informado' included, it returns 'Outros'; it always returns and it
\* changes nothing else.
T_C18_GrupoTotal ==
    [][Classificar =>
         /\ normOut'.kind = "grupo"
         /\ \A i \in 1..Len(GRUPOS_BASES) :
               RotuloDe(cell) \in GRUPOS_BASES[i].bases =>
                  normOut'.grupo = GRUPOS_BASES[i].grupo
         /\ RotuloDe(cell) \notin RotulosListados => normOut'.grupo = "Outros"
         /\ UNCHANGED <<cell, disk, dados, cached_file, cache, cacheSimple, ret, out>>]_vars

\* the sentinel of an empty site has been classified
W_C18_GrupoTotal ==
    /\ cell = Str(NaoInformado)
    /\ normOut # Pending
    /\ normOut.kind = "grupo"
    /\ normOut.grupo = "Outros"

\* the step is a direct call of the cached loader
PassoChamada == disk' = disk /\ ret'.op = "carregar_dados_cache_alt"

\* C11: the loader cache is keyed by folder, file name, column list and
\* dtype mapping: a call whose four arguments equal those of a stored entry
\* is a hit that returns the stored table whatever the file now holds, and
\* a call that differs from every stored entry in any of the four is a miss
\* that runs the whole pipeline on the file.
T_C11_ChaveDeQuatro ==
    [][PassoChamada =>
         IF Guardadas(cache, Argumentos(ret')) # {}
         THEN /\ ret'.hit
              /\ ~ ret'.raised
              /\ \A i \in Guardadas(cache, Argumentos(ret')) :
                    ret'.value = cache[i].value
         ELSE /\ ~ ret'.hit
              /\ ret'.raised = Pipeline(disk, ret').raised
              /\ ~ ret'.raised => ret'.value = Pipeline(disk, ret').value]_vars

\* a hit returned the stored table although the file has been replaced, and
\* the cache also holds an entry whose arguments differ in one of the four
W_C11_ChaveDeQuatro ==
    /\ ret.op = "carregar_dados_cache_alt"
    /\ ret.hit
    /\ ret.value # Pipeline(disk, ret).value
    /\ \E i \in 1..Len(cache) :
          Cardinality({j \in 1..4 : cache[i].key[j] # Argumentos(ret)[j]}) = 1

(***************************************************************************)
(* Frames and grouping.  A frame keeps, through every row filter, the      *)
(* categories of its categorical columns; groupby over a categorical key   *)
(* yields one group per category, in category order, also for a category   *)
(* that no row of the frame carries (observed=False, the default whose     *)
(* warning the pages silence), and only the categories carried by a row    *)
(* when observed=True.                                                     *)
(***************************************************************************)
\* the texts of the BASE column of the model, in ascending order
OrdemTexto ==
    <<"", "BASE BAURU", "BASE X", "C1", "C2", "C3", "C4", "DESCONEXAO",
      "Desconexão", "Executado", "Não Informado", "Pendente", "T1", "T2", "T3",
      "VISITA TECNICA">>

\* the elements of a set of texts as a list in ascending order
Sorted(S) == SelectSeq(OrdemTexto, LAMBDA t : t \in S)

\* df[mask]: the rows that satisfy P, the categories untouched
Filtra(df, P(_)) == [df EXCEPT !.rows = SelectSeq(df.rows, P)]

RowsOf(rows, col, v) == SelectSeq(rows, LAMBDA r : r[col] = v)

RECURSIVE SumCol(_, _)
SumCol(rows, col) ==
    IF rows = <<>> THEN 0 ELSE rows[1][col] + SumCol(Tail(rows), col)

Unique(rows, col) == {rows[i][col] : i \in 1..Len(rows)}

NUnique(rows, col) == Cardinality(Unique(rows, col))

Map(f, Op(_)) == [i \in 1..Len(f) |-> Op(f[i])]

\* groupby(col) on a categorical column: every category is a group key,
\* in order
Grupos(df, col) == Sorted(df.cats[col])

\* sort_values(col, ascending=...): rows of equal key keep their order
RECURSIVE SortValues(_, _, _)
SortValues(t, col, ascending) ==
    IF t = <<>> THEN <<>>
    ELSE LET antes(a, b) == IF ascending THEN a < b ELSE a > b
             i == CHOOSE k \in 1..Len(t) :
                     \A j \in 1..Len(t) :
                        /\ ~ antes(t[j][col], t[k][col])
                        /\ j < k => antes(t[k][col], t[j][col])
         IN  <<t[i]>>
             \o SortValues(SubSeq(t, 1, i - 1) \o SubSeq(t, i + 1, Len(t)),
                           col, ascending)

\* groupby('BASE', observed=...): the group keys, in order
GruposBase(df, observed) ==
    Sorted(IF observed THEN Unique(df.rows, "BASE") ELSE df.cats["BASE"])

(***************************************************************************)
(* Ratios.  An amount is a whole number of centavos.  A quotient is the    *)
(* fraction num/den; round(x, n) and Series.round(n) round half to even    *)
(* and give a whole number v of 10^-n units; a Series division by zero     *)
(* gives NaN (0/0) or infinity.                                            *)
(***************************************************************************)
RoundDiv(n, d) ==
    LET q == n \div d
        r == n % d
    IN  IF 2 * r > d THEN q + 1
        ELSE IF 2 * r < d THEN q
        ELSE IF q % 2 = 0 THEN q ELSE q + 1

Dec(v, casas) == [kind |-> "dec", v |-> v, casas |-> casas]
Frac(n, d) == [kind |-> "frac", num |-> n, den |-> d]
Inf == [kind |-> "inf"]

\* the literal 0 of the `else 0` branches
ZeroRatio == Dec(0, 0)

\* x / y of two Series, on one element
SeriesDiv(n, d) ==
    IF d # 0 THEN Frac(n, d) ELSE IF n = 0 THEN NaN ELSE Inf

\* an amount divided by a count, in reais
ValorDiv(centavos, d) == SeriesDiv(centavos, 100 * d)

\* round(x, casas); NaN and infinity stay what they are
Round(x, casas) ==
    IF x.kind = "frac"
    THEN Dec(RoundDiv(Pow10(casas) * x.num, x.den), casas)
    ELSE x

(***************************************************************************)
(* DashboardTecnicos.mostrar_tabela_bases.                                 *)
(***************************************************************************)
Row4(b, v, c, t) ==
    ("BASE" :> b @@ "VALOR EMPRESA" :> v @@ "CONTRATO" :> c @@ "TECNICO" :> t)

\* groupby('BASE').agg(sum, count, nunique).reset_index(); count counts
\* the rows, CONTRATO holding no null after the load
AgregaPorBase(df, observed) ==
    LET bs == GruposBase(df, observed)
    IN  [i \in 1..Len(bs) |->
           LET rs == RowsOf(df.rows, "BASE", bs[i])
           IN  Row4(bs[i], SumCol(rs, "VALOR EMPRESA"), Len(rs),
                    NUnique(rs, "TECNICO"))]

\* lines 579-583 and 657-661
SoAtivasSemFiltro(agr) == agr
SoAtivas(agr) ==
    SelectSeq(agr, LAMBDA x : x["VALOR EMPRESA"] > 0 \/ x["CONTRATO"] > 0
                              \/ x["TECNICO"] > 0)

\* lines 591-603: the ratio columns, then the renamed columns
LinhaResumo(x) ==
    ("BASE" :> x["BASE"] @@ "VALOR" :> x["VALOR EMPRESA"] @@
     "CONTRATOS" :> x["CONTRATO"] @@ "EQUIPES" :> x["TECNICO"] @@
     "VL EQ" :> (IF x["TECNICO"] > 0
                 THEN Round(ValorDiv(x["VALOR EMPRESA"], x["TECNICO"]), 2)
                 ELSE ZeroRatio) @@
     "EQ_CTTS" :> (IF x["TECNICO"] > 0
                   THEN Round(SeriesDiv(x["CONTRATO"], x["TECNICO"]), 1)
                   ELSE ZeroRatio))

\* the rows in descending order of BASE
SortValuesBaseDescendente(t, cats) ==
    LET bs == Sorted(cats)
        RECURSIVE Junta(_)
        Junta(i) == IF i < 1 THEN <<>>
                    ELSE RowsOf(t, "BASE", bs[i]) \o Junta(i - 1)
    IN  Junta(Len(bs))

\* line 606, sort_values('BASE'): BASE is categorical, so the rows come in
\* the order of its categories
SortValuesBase(t, cats) ==
    LET bs == Sorted(cats)
        RECURSIVE Junta(_)
        Junta(i) == IF i > Len(bs) THEN <<>>
                    ELSE RowsOf(t, "BASE", bs[i]) \o Junta(i + 1)
    IN  Junta(1)

\* the mean of a rounded ratio column
MeanDec(t, col, casas) ==
    LET RECURSIVE Soma(_)
        Soma(rows) == IF rows = <<>> THEN 0
                      ELSE rows[1][col].v * Pow10(casas - rows[1][col].casas)
                           + Soma(Tail(rows))
    IN  Frac(Soma(t), Pow10(casas) * Len(t))

\* lines 609-616
TotalResumoMedia(t) ==
    ("BASE" :> "Total Geral" @@ "VALOR" :> SumCol(t, "VALOR") @@
     "CONTRATOS" :> SumCol(t, "CONTRATOS") @@ "EQUIPES" :> SumCol(t, "EQUIPES") @@
     "VL EQ" :> Round(MeanDec(t, "VL EQ", 2), 2) @@
     "EQ_CTTS" :> Round(MeanDec(t, "EQ_CTTS", 1), 1))
TotalResumoContagem(t) ==
    ("BASE" :> "Total Geral" @@ "VALOR" :> SumCol(t, "VALOR") @@
     "CONTRATOS" :> Len(t) @@ "EQUIPES" :> SumCol(t, "EQUIPES") @@
     "VL EQ" :> (IF SumCol(t, "EQUIPES") > 0
                 THEN Round(ValorDiv(SumCol(t, "VALOR"), SumCol(t, "EQUIPES")), 2)
                 ELSE ZeroRatio) @@
     "EQ_CTTS" :> (IF SumCol(t, "EQUIPES") > 0
                   THEN Round(SeriesDiv(Len(t), SumCol(t, "EQUIPES")), 1)
                   ELSE ZeroRatio))
TotalResumo(t) ==
    ("BASE" :> "Total Geral" @@ "VALOR" :> SumCol(t, "VALOR") @@
     "CONTRATOS" :> SumCol(t, "CONTRATOS") @@ "EQUIPES" :> SumCol(t, "EQUIPES") @@
     "VL EQ" :> (IF SumCol(t, "EQUIPES") > 0
                 THEN Round(ValorDiv(SumCol(t, "VALOR"), SumCol(t, "EQUIPES")), 2)
                 ELSE ZeroRatio) @@
     "EQ_CTTS" :> (IF SumCol(t, "EQUIPES") > 0
                   THEN Round(SeriesDiv(SumCol(t, "CONTRATOS"),
                                        SumCol(t, "EQUIPES")), 1)
                   ELSE ZeroRatio))

\* lines 665-672: VL EQ is not rounded in this table
LinhaDesconexao(x) ==
    x @@ ("VL EQ" :> (IF x["TECNICO"] > 0
                      THEN ValorDiv(x["VALOR EMPRESA"], x["TECNICO"])
                      ELSE ZeroRatio) @@
          "EQ_CTTS" :> (IF x["TECNICO"] > 0
                        THEN Round(SeriesDiv(x["CONTRATO"], x["TECNICO"]), 1)
                        ELSE ZeroRatio))

\* lines 675-682
TotalDesconexao(t) ==
    ("BASE" :> "Total Geral" @@ "VALOR EMPRESA" :> SumCol(t, "VALOR EMPRESA") @@
     "CONTRATO" :> SumCol(t, "CONTRATO") @@ "TECNICO" :> SumCol(t, "TECNICO") @@
     "VL EQ" :> (IF SumCol(t, "TECNICO") > 0
                 THEN ValorDiv(SumCol(t, "VALOR EMPRESA"), SumCol(t, "TECNICO"))
                 ELSE ZeroRatio) @@
     "EQ_CTTS" :> (IF SumCol(t, "TECNICO") > 0
                   THEN Round(SeriesDiv(SumCol(t, "CONTRATO"),
                                        SumCol(t, "TECNICO")), 1)
                   ELSE ZeroRatio))

\* .str.contains('DESCONEX', case=False, na=False) over the service types
\* of the model
ContemDESCONEX(t) == t \in {"DESCONEXAO", "Desconexão"}

W_SemDados == "warning: Não há dados para gerar as tabelas com os filtros atuais"
W_SemAtivos == "warning: Não há dados ativos para gerar as tabelas"
I_SemDesconexao == "info: Não há dados de desconexão ativos para os filtros selecionados"
E_Tabelas == "error: Erro ao gerar tabelas"

\* the Desconexão part, lines 644-707.  The quotient of line 670 is taken
\* between two cells of the row that DataFrame.apply hands to the lambda;
\* where the cells reach it as Python numbers the quotient is a float, which
\* has no round method, and the AttributeError is reported at line 710.
\* comRound tells whether the quotient has the method.
ParteDesconexao(df, comRound) ==
    IF "TIPO DE SERVIÇO" \notin df.columns THEN [msgs |-> <<>>, tabela |-> <<>>]
    ELSE LET desc == Filtra(df, LAMBDA r : ContemDESCONEX(r["TIPO DE SERVIÇO"]))
         IN  IF Len(desc.rows) = 0 THEN [msgs |-> <<>>, tabela |-> <<>>]
             ELSE LET agr == SoAtivas(AgregaPorBase(desc, FALSE))
                  IN  IF Len(agr) = 0
                      THEN [msgs |-> <<I_SemDesconexao>>, tabela |-> <<>>]
                      ELSE IF ~ comRound
                      THEN [msgs |-> <<E_Tabelas>>, tabela |-> <<>>]
                      ELSE LET t == Map(agr, LinhaDesconexao)
                           IN  [msgs |-> <<>>,
                                tabela |-> Append(t, TotalDesconexao(t))]

\* the whole method: [msgs, resumo, desconexao]; a table that was not
\* produced is the empty list
mostrar_tabela_bases(dados_filtrados, grupo_selecionado, comRound) ==
    IF Len(dados_filtrados.rows) = 0
    THEN [msgs |-> <<W_SemDados>>, resumo |-> <<>>, desconexao |-> <<>>]
    ELSE LET df == IF grupo_selecionado # "Todos"
                   THEN Filtra(dados_filtrados,
                               LAMBDA r : r["GRUPO"] = grupo_selecionado)
                   ELSE dados_filtrados
             agr == SoAtivas(AgregaPorBase(df, FALSE))
         IN  IF Len(agr) = 0
             THEN [msgs |-> <<W_SemAtivos>>, resumo |-> <<>>, desconexao |-> <<>>]
             ELSE LET t == SortValuesBase(Map(agr, LinhaResumo), df.cats["BASE"])
                      d == ParteDesconexao(df, comRound)
                  IN  [msgs |-> d.msgs,
                       resumo |-> Append(t, TotalResumo(t)),
                       desconexao |-> d.tabela]

(***************************************************************************)
(* What the selectors of a report offer, given the loaded table.           *)
(***************************************************************************)
OpcoesGrupo(df) == {"Todos"} \cup Unique(df.rows, "GRUPO")

OpcoesBase(df, grupo) ==
    {"Todas"} \cup Unique(IF grupo # "Todos"
                          THEN RowsOf(df.rows, "GRUPO", grupo)
                          ELSE df.rows, "BASE")

\* a multiselect returns any subset of its options
OpcoesStatus(df) == SUBSET Unique(df.rows, "STATUS")

\* the dates of DATA_TOA that are not NaT
DatasValidas(df) ==
    {df.rows[i]["DATA_TOA"].ord :
        i \in {j \in 1..Len(df.rows) : df.rows[j]["DATA_TOA"].kind = "date"}}

MinOf(S) == CHOOSE x \in S : \A y \in S : x <= y
MaxOf(S) == CHOOSE x \in S : \A y \in S : x >= y

\* DATA_TOA >= data_min and DATA_TOA <= data_max on one row: False on NaT
NoPeriodo(r, data_min, data_max) ==
    /\ r["DATA_TOA"].kind = "date"
    /\ r["DATA_TOA"].ord >= data_min
    /\ r["DATA_TOA"].ord <= data_max

\* the four metric cards of analisar_produtividade and of page 1
Metricas(rows) ==
    [total_registros |-> Len(rows),
     total_tecnicos |-> NUnique(rows, "TECNICO"),
     valor_total |-> SumCol(rows, "VALOR EMPRESA"),
     media_por_tecnico |->
        IF NUnique(rows, "TECNICO") > 0
        THEN ValorDiv(SumCol(rows, "VALOR EMPRESA"), NUnique(rows, "TECNICO"))
        ELSE ZeroRatio]

I_Filtro == "info: Mostrando dados para"

\* lines 371-377 of the application and 213-220 of page 1
InfoFiltro(grupo, base) ==
    IF grupo # "Todos" \/ base # "Todas" THEN <<I_Filtro>> ELSE <<>>

(***************************************************************************)
(* DashboardTecnicos.analisar_produtividade, on a loaded table.            *)
(***************************************************************************)
E_Datas == "error: Não foi possível processar as datas no arquivo"
W_Status == "warning: Por favor, selecione pelo menos um status"
W_Nenhum == "warning: Nenhum dado encontrado para os filtros selecionados"

\* a run that stopped at a message, before any figure
ProdParou(msg) ==
    [msgs |-> <<msg>>, filtrou |-> FALSE, filtrados |-> <<>>,
     metricas |-> None, metricas_base |-> <<>>, totais |-> None,
     valores_base |-> <<>>]

\* lines 380-387: groupby('BASE') over the filtered rows
MetricasBase(f) ==
    LET bs == GruposBase(f, FALSE)
    IN  [i \in 1..Len(bs) |->
           LET rs == RowsOf(f.rows, "BASE", bs[i])
           IN  [Base |-> bs[i],
                TotalTecnicos |-> NUnique(rs, "TECNICO"),
                TotalContratos |-> NUnique(rs, "CONTRATO"),
                ValorTecnicos |-> SumCol(rs, "VALOR TÉCNICO"),
                ValorEmpresa |-> SumCol(rs, "VALOR EMPRESA")]]

\* lines 529-532
ValoresBase(f) ==
    LET bs == GruposBase(f, FALSE)
    IN  [i \in 1..Len(bs) |->
           LET rs == RowsOf(f.rows, "BASE", bs[i])
           IN  [BASE |-> bs[i],
                ValorTecnico |-> SumCol(rs, "VALOR TÉCNICO"),
                ValorEmpresa |-> SumCol(rs, "VALOR EMPRESA")]]

\* lines 317-320: the rows and the amount of each base
DadosAgrupados(f) ==
    LET bs == GruposBase(f, FALSE)
    IN  [i \in 1..Len(bs) |->
           LET rs == RowsOf(f.rows, "BASE", bs[i])
           IN  [BASE |-> bs[i], CONTRATO |-> Len(rs),
                ValorEmpresa |-> SumCol(rs, "VALOR EMPRESA")]]

\* lines 420-441: the technicians of the selected base, by contracts
ProdTecnico(f, base) ==
    LET tb == RowsOf(f.rows, "BASE", base)
        ts == Grupos(f, "TECNICO")
        t == [i \in 1..Len(ts) |->
                LET rs == RowsOf(tb, "TECNICO", ts[i])
                IN  [Tecnico |-> ts[i],
                     Contratos |-> NUnique(rs, "CONTRATO"),
                     ValorTecnico |-> SumCol(rs, "VALOR TÉCNICO"),
                     ValorEmpresa |-> SumCol(rs, "VALOR EMPRESA")]]
    IN  SelectSeq(SortValues(t, "Contratos", FALSE), LAMBDA x : x.Contratos > 0)

\* lines 470-476: the contracts of each service type
ServicosDaBase(f) ==
    LET ss == Grupos(f, "TIPO DE SERVIÇO")
    IN  SortValues([i \in 1..Len(ss) |->
                      [TIPO |-> ss[i],
                       CONTRATO |-> NUnique(RowsOf(f.rows, "TIPO DE SERVIÇO", ss[i]),
                                            "CONTRATO")]],
                   "CONTRATO", FALSE)

\* lines 487-493: the contracts of each service type in each base
RECURSIVE ServicosPorBase(_, _)
ServicosPorBase(f, bs) ==
    IF bs = <<>> THEN <<>>
    ELSE LET da_base == [f EXCEPT !.rows = RowsOf(f.rows, "BASE", bs[1])]
         IN  [i \in 1..Len(ServicosDaBase(da_base)) |->
                 [BASE |-> bs[1]] @@ ServicosDaBase(da_base)[i]]
             \o ServicosPorBase(f, Tail(bs))

analisar_produtividade(df, grupo_selecionado, base_selecionada, status_selecionados) ==
    IF DatasValidas(df) = {} THEN ProdParou(E_Datas)
    ELSE IF status_selecionados = {} THEN ProdParou(W_Status)
    ELSE
    LET data_min == MinOf(DatasValidas(df))
        data_max == MaxOf(DatasValidas(df))
        mask(r) == /\ NoPeriodo(r, data_min, data_max)
                   /\ (grupo_selecionado # "Todos" => r["GRUPO"] = grupo_selecionado)
                   /\ (base_selecionada # "Todas" => r["BASE"] = base_selecionada)
                   /\ r["STATUS"] \in status_selecionados
        f0 == Filtra(df, mask)
        agr == DadosAgrupados(f0)
        bases_ativas == {agr[i].BASE :
                           i \in {j \in 1..Len(agr) :
                                    agr[j].CONTRATO > 0 \/ agr[j].ValorEmpresa > 0}}
        f == Filtra(f0, LAMBDA r : r["BASE"] \in bases_ativas)
    IN  IF Len(f.rows) = 0
        THEN [ProdParou(W_Nenhum) EXCEPT !.filtrou = TRUE]
        ELSE [msgs |-> InfoFiltro(grupo_selecionado, base_selecionada),
              filtrou |-> TRUE,
              filtrados |-> f.rows,
              dados_agrupados |-> agr,
              metricas |-> Metricas(f.rows),
              metricas_base |-> MetricasBase(f),
              prod_tecnico |-> IF base_selecionada # "Todas"
                               THEN ProdTecnico(f, base_selecionada) ELSE <<>>,
              servicos_analise |-> IF base_selecionada # "Todas"
                                   THEN ServicosDaBase(f)
                                   ELSE ServicosPorBase(f, GruposBase(f, FALSE)),
              totais |-> [total_tecnicos |-> NUnique(f.rows, "TECNICO"),
                          total_contratos |-> NUnique(f.rows, "CONTRATO"),
                          total_valor_tecnico |-> SumCol(f.rows, "VALOR TÉCNICO"),
                          total_valor_empresa |-> SumCol(f.rows, "VALOR EMPRESA")],
              valores_base |-> IF base_selecionada # "Todas" THEN <<>>
                               ELSE ValoresBase(f)]

(***************************************************************************)
(* analisar_status: the base selector, then the contracts of each status,  *)
(* of each day and status, and the summary by status.  No period filter    *)
(* and no status filter are applied.                                       *)
(***************************************************************************)
\* lines 735-741: an empty site name is offered as 'Não Informado'
OpcoesBaseStatus(df) ==
    {"Todas"} \cup {IF b = "" THEN NaoInformado ELSE b : b \in Unique(df.rows, "BASE")}

\* lines 754-756: groupby('STATUS') over every status category
StatusCount(f) ==
    LET ss == Grupos(f, "STATUS")
    IN  SortValues([i \in 1..Len(ss) |->
                      [Status |-> ss[i],
                       Quantidade |-> NUnique(RowsOf(f.rows, "STATUS", ss[i]),
                                              "CONTRATO")]],
                   "Quantidade", TRUE)

\* the days of a list of dates in ascending order
RECURSIVE DiasEmOrdem(_)
DiasEmOrdem(S) ==
    IF S = {} THEN <<>> ELSE <<MinOf(S)>> \o DiasEmOrdem(S \ {MinOf(S)})

\* lines 781-784: groupby([DATA_TOA.dt.date, 'STATUS']); a row without a
\* date belongs to no group
RECURSIVE StatusTemporal(_, _)
StatusTemporal(f, dias) ==
    IF dias = <<>> THEN <<>>
    ELSE LET ss == Grupos(f, "STATUS")
             do_dia == SelectSeq(f.rows, LAMBDA r : r["DATA_TOA"] = Date(dias[1]))
         IN  [i \in 1..Len(ss) |->
                 [DATA_TOA |-> dias[1], STATUS |-> ss[i],
                  CONTRATO |-> NUnique(RowsOf(do_dia, "STATUS", ss[i]), "CONTRATO")]]
             \o StatusTemporal(f, Tail(dias))

\* lines 802-807
ResumoStatus(f) ==
    LET ss == Grupos(f, "STATUS")
    IN  [i \in 1..Len(ss) |->
           LET rs == RowsOf(f.rows, "STATUS", ss[i])
           IN  [Status |-> ss[i],
                QuantidadeContratos |-> NUnique(rs, "CONTRATO"),
                ValorTecnico |-> SumCol(rs, "VALOR TÉCNICO"),
                ValorEmpresa |-> SumCol(rs, "VALOR EMPRESA")]]

analisar_status(df, base_selecionada) ==
    IF DatasValidas(df) = {}
    THEN [msgs |-> <<E_Datas>>, rendeu |-> FALSE, filtrados |-> <<>>,
          status_count |-> <<>>, status_temporal |-> <<>>, resumo_status |-> <<>>]
    ELSE LET f == IF base_selecionada # "Todas"
                  THEN Filtra(df, LAMBDA r : r["BASE"] = base_selecionada)
                  ELSE df
         IN  [msgs |-> <<>>, rendeu |-> TRUE, filtrados |-> f.rows,
              status_count |-> StatusCount(f),
              status_temporal |-> StatusTemporal(f, DiasEmOrdem(DatasValidas(f))),
              resumo_status |-> ResumoStatus(f)]

\* mostrar_dados_basicos
mostrar_dados_basicos(df) ==
    [total_registros |-> Len(df.rows),
     total_tecnicos |-> NUnique(df.rows, "TECNICO"),
     total_bases |-> NUnique(df.rows, "BASE")]

(***************************************************************************)
(* Page 1, Resumo por Base: main from the filters on.                      *)
(***************************************************************************)
\* lines 163-173: the status filter is applied only to a non-empty selection
FiltraPagina1(df, grupo, base, status) ==
    LET f1 == IF grupo # "Todos"
              THEN Filtra(df, LAMBDA r : r["GRUPO"] = grupo) ELSE df
        f2 == IF base # "Todas"
              THEN Filtra(f1, LAMBDA r : r["BASE"] = base) ELSE f1
    IN  IF status # {}
        THEN Filtra(f2, LAMBDA r : r["STATUS"] \in status) ELSE f2

E_Insights == "error: Erro ao gerar insights"
W_Eficiencia == "warning: Não há dados suficientes para gerar o gráfico de eficiência"
W_Rentabilidade == "warning: Não há dados suficientes para gerar o gráfico de rentabilidade"

\* lines 240-247 and 272-279: groupby('BASE', observed=True), the bases
\* without technician removed, then the quotient
Eficiencia(f) ==
    Map(SelectSeq(AgregaPorBase(f, TRUE), LAMBDA x : x["TECNICO"] > 0),
        LAMBDA x : [BASE |-> x["BASE"],
                    v |-> SeriesDiv(x["CONTRATO"], x["TECNICO"])])

Rentabilidade(f) ==
    Map(SelectSeq(AgregaPorBase(f, TRUE), LAMBDA x : x["TECNICO"] > 0),
        LAMBDA x : [BASE |-> x["BASE"],
                    v |-> ValorDiv(x["VALOR EMPRESA"], x["TECNICO"])])

\* analise_inteligente takes idxmax of the per-base quotients, which raises
\* on a frame without rows; main reports it at line 231
Pagina1(df, grupo, base, status, comRound) ==
    LET f == FiltraPagina1(df, grupo, base, status)
        tab == mostrar_tabela_bases(f, "Todos", comRound)
    IN  [msgs |-> tab.msgs \o InfoFiltro(grupo, base)
                  \o (IF Len(f.rows) = 0 THEN <<E_Insights>> ELSE <<>>)
                  \o (IF Eficiencia(f) = <<>> THEN <<W_Eficiencia>> ELSE <<>>)
                  \o (IF Rentabilidade(f) = <<>> THEN <<W_Rentabilidade>> ELSE <<>>),
         filtrados |-> f.rows,
         resumo |-> tab.resumo,
         desconexao |-> tab.desconexao,
         metricas |-> Metricas(f.rows),
         insights |-> Len(f.rows) > 0,
         eficiencia |-> Eficiencia(f),
         rentabilidade |-> Rentabilidade(f)]

(***************************************************************************)
(* Page 2, Análise Avançada: main up to analisar_produtividade_regional.   *)
(* The analyses that follow it draw further charts from the same frame.    *)
(***************************************************************************)
\* lines 395-402 on one amount: the float is printed with its decimal point
\* (100.0, 12.5, 1234.56), the point is removed as any other '.', and the
\* digits are read back as a number of reais
ReleValor(centavos) ==
    IF centavos % 10 = 0 THEN 10 * centavos ELSE 100 * centavos

\* lines 408-414
tempo_medio_servico(tipo) ==
    CASE tipo = "ADESAO DE ASSINATURA" -> 90
      [] tipo = "MUDANCA DE ENDERECO" -> 120
      [] tipo = "VISITA TECNICA" -> 60
      [] tipo = "SERVICOS" -> 45
      [] tipo = "MUDANCA DE PACOTE" -> 30
      [] OTHER -> 60

\* Series.map over a categorical column maps the categories: the result is
\* again categorical when the categories get distinct images, and then the
\* division of line 424 raises TypeError
TempoCategorico(df) ==
    \A a, b \in df.cats["TIPO DE SERVIÇO"] :
        a # b => tempo_medio_servico(a) # tempo_medio_servico(b)

E_Preparar == "error: Erro ao preparar dados"
E_Colunas == "error: Colunas disponíveis"
E_Processar == "error: Erro ao processar os dados"
E_Formato == "error: Por favor, verifique o formato dos dados"
I_Tempos == "info: Usando tempos médios estimados por tipo de serviço"

\* preparar_dados: the frame with its amounts read again
preparar_dados(df) ==
    IF TempoCategorico(df) THEN Raise("TypeError")
    ELSE Return([df EXCEPT !.rows =
                    [i \in 1..Len(df.rows) |->
                        [df.rows[i] EXCEPT
                            !["VALOR TÉCNICO"] = ReleValor(@),
                            !["VALOR EMPRESA"] = ReleValor(@)]]])

\* analisar_produtividade_regional, lines 70-80: every category of BASE is
\* a group and no group is removed before the divisions
analisar_produtividade_regional(f) ==
    Map(AgregaPorBase(f, FALSE),
        LAMBDA x : x @@
           ("CONTRATOS_POR_TECNICO" :>
                Round(SeriesDiv(x["CONTRATO"], x["TECNICO"]), 2) @@
            "VALOR_MEDIO_CONTRATO" :>
                Round(ValorDiv(x["VALOR EMPRESA"], x["CONTRATO"]), 2)))

\* the frame main hands to preparar_dados, as the run leaves it: line 387
\* rebinds the name to a copy before the assignments of lines 391-425, and
\* analisar_horarios writes HORA into the copy made at line 539
DadosAposSemCopia(df) ==
    [df EXCEPT !.rows = [i \in 1..Len(df.rows) |->
                            [df.rows[i] EXCEPT !["VALOR TÉCNICO"] = ReleValor(@),
                                               !["VALOR EMPRESA"] = ReleValor(@)]]]
DadosApos(df) == df

Pagina2Parou(msgs) == [msgs |-> msgs, filtrados |-> <<>>, regional |-> <<>>]

\* main, lines 486-557, with the dates and the selections of the sidebar
Pagina2(df, data_min, data_max, grupo, base) ==
    LET prep == preparar_dados(df)
    IN  IF prep.raised
        THEN Pagina2Parou(<<I_Tempos, E_Preparar, E_Colunas, E_Processar, E_Formato>>)
        ELSE IF DatasValidas(prep.value) = {}
        THEN \* NaT has no date(): line 493 raises
             Pagina2Parou(<<I_Tempos, E_Processar, E_Colunas, E_Formato>>)
        ELSE LET mask(r) == /\ NoPeriodo(r, data_min, data_max)
                            /\ (grupo # "Todos" => r["GRUPO"] = grupo)
                            /\ (base # "Todas" => r["BASE"] = base)
                 f == Filtra(prep.value, mask)
             IN  IF Len(f.rows) = 0
                 THEN Pagina2Parou(<<I_Tempos, W_Nenhum>>)
                 ELSE [msgs |-> <<I_Tempos>>,
                       filtrados |-> f.rows,
                       regional |-> analisar_produtividade_regional(f)]

(***************************************************************************)
(* listar_arquivos: the names in the directory that end in .xlsx or .csv,  *)
(* in alphabetical order.                                                  *)
(***************************************************************************)
OrdemStem == <<"a", "b", "c", "e", "g", "h", "m", "u">>
OrdemExt == <<"csv", "txt", "xlsx">>

OrdemNomes ==
    [k \in 1..(Len(OrdemStem) * Len(OrdemExt)) |->
        Arquivo(OrdemStem[((k - 1) \div Len(OrdemExt)) + 1],
                OrdemExt[((k - 1) % Len(OrdemExt)) + 1])]

\* the eligible names in descending order
listar_arquivos_decrescente(d) ==
    LET l == SelectSeq(OrdemNomes,
                       LAMBDA n : /\ n \in DOMAIN d
                                  /\ (EndsWith(n, "xlsx") \/ EndsWith(n, "csv")))
    IN  [i \in 1..Len(l) |-> l[Len(l) + 1 - i]]

listar_arquivos(d) ==
    SelectSeq(OrdemNomes, LAMBDA n : /\ n \in DOMAIN d
                                     /\ (EndsWith(n, "xlsx") \/ EndsWith(n, "csv")))

(***************************************************************************)
(* The report runs.  Each run of a script builds a new DashboardTecnicos,  *)
(* lists the directory, loads a file through the cache of the process and, *)
(* when carregar_dados returned True, draws its selectors and its report.  *)
(* out holds the selections next to what the report produced.              *)
(***************************************************************************)
E_SemArquivos == "error: Nenhum arquivo encontrado"
E_Carregar == "error: Erro ao carregar arquivo"

\* the file a run loads: the application lets the user pick one when the
\* directory lists several, the pages take the first
ArquivosDaApp(d) ==
    IF Len(listar_arquivos(d)) > 1 THEN Range(listar_arquivos(d))
    ELSE {listar_arquivos(d)[1]}

SemArquivos(op) ==
    /\ dados' = None
    /\ cached_file' = None
    /\ ret' = NoCall
    /\ out' = [op |-> op, msgs |-> <<E_SemArquivos>>]
    /\ UNCHANGED <<cell, normOut, disk, cache, cacheSimple>>

\* load_css, lines 817-819, called by main and by page 1 before anything
\* is drawn: open('style.css') stands outside any try, so a run without the
\* file ends there, the FileNotFoundError leaving main
SemCss(op) ==
    /\ dados' = None
    /\ cached_file' = None
    /\ ret' = NoCall
    /\ out' = [op |-> op, msgs |-> <<>>, escapou |-> "FileNotFoundError"]
    /\ UNCHANGED <<cell, normOut, disk, cache, cacheSimple>>

\* main of streamlit_app.py with "Produtividade dos Técnicos" selected
AppMainProdutividade ==
    \E css \in BOOLEAN :
    IF ~ css THEN SemCss("analisar_produtividade")
    ELSE IF listar_arquivos(disk) = <<>> THEN SemArquivos("analisar_produtividade")
    ELSE \E arquivo \in ArquivosDaApp(disk) :
            /\ carregar_dados(None, None, arquivo)
            /\ IF ret'.value
               THEN \E grupo \in OpcoesGrupo(dados') :
                    \E base \in OpcoesBase(dados', grupo) :
                    \E status \in OpcoesStatus(dados') :
                       out' = [op |-> "analisar_produtividade", grupo |-> grupo,
                               base |-> base, status |-> status,
                               basicos |-> mostrar_dados_basicos(dados')]
                              @@ analisar_produtividade(dados', grupo, base, status)
               ELSE out' = [op |-> "analisar_produtividade", msgs |-> <<E_Carregar>>]
            /\ UNCHANGED <<cell, normOut, disk, cacheSimple>>

\* main of streamlit_app.py with "Status dos Serviços" selected
AppMainStatus ==
    \E css \in BOOLEAN :
    IF ~ css THEN SemCss("analisar_status")
    ELSE IF listar_arquivos(disk) = <<>> THEN SemArquivos("analisar_status")
    ELSE \E arquivo \in ArquivosDaApp(disk) :
            /\ carregar_dados(None, None, arquivo)
            /\ IF ret'.value
               THEN \E base \in OpcoesBaseStatus(dados') :
                       out' = [op |-> "analisar_status", base |-> base]
                              @@ analisar_status(dados', base)
               ELSE out' = [op |-> "analisar_status", msgs |-> <<E_Carregar>>]
            /\ UNCHANGED <<cell, normOut, disk, cacheSimple>>

\* main of page 1
Pagina1Main ==
    \E css \in BOOLEAN :
    IF ~ css THEN SemCss("pagina1")
    ELSE IF listar_arquivos(disk) = <<>> THEN SemArquivos("pagina1")
    ELSE /\ carregar_dados(None, None, listar_arquivos(disk)[1])
         /\ IF ret'.value
            THEN \E grupo \in OpcoesGrupo(dados') :
                 \E base \in OpcoesBase(dados', grupo) :
                 \E status \in OpcoesStatus(dados') :
                 \E rel \in {Pagina1(dados', grupo, base, status, comRound) :
                               comRound \in BOOLEAN} :
                    out' = [op |-> "pagina1", grupo |-> grupo, base |-> base,
                            status |-> status] @@ rel
            ELSE out' = [op |-> "pagina1", msgs |-> <<E_Carregar>>]
         /\ UNCHANGED <<cell, normOut, disk, cacheSimple>>

\* the two date inputs accept any day from the first to the last valid
\* date; the model enters one of these two (no input is drawn when the
\* table has no valid date)
OpcoesData(df) ==
    IF DatasValidas(df) = {} THEN {0}
    ELSE {MinOf(DatasValidas(df)), MaxOf(DatasValidas(df))}

\* main of page 2
Pagina2Main ==
    IF listar_arquivos(disk) = <<>> THEN SemArquivos("pagina2")
    ELSE /\ carregar_dados(None, None, listar_arquivos(disk)[1])
         /\ IF ret'.value
            THEN \E data_min \in OpcoesData(dados') :
                 \E data_max \in OpcoesData(dados') :
                 \E grupo \in OpcoesGrupo(dados') :
                 \E base \in OpcoesBase(dados', grupo) :
                    out' = [op |-> "pagina2", grupo |-> grupo, base |-> base,
                            data_min |-> data_min, data_max |-> data_max,
                            dados_apos |-> DadosApos(dados')]
                           @@ Pagina2(dados', data_min, data_max, grupo, base)
            ELSE out' = [op |-> "pagina2", msgs |-> <<E_Carregar>>]
         /\ UNCHANGED <<cell, normOut, disk, cacheSimple>>

\* page 3, verificar_dados: the columns the analyses ask for
ColunasIA ==
    {"DATA_TOA", "CONTRATO", "VALOR EMPRESA", "TEMPO_MINUTOS", "STATUS", "TECNICO"}

verificar_dados(df) == ColunasIA \subseteq df.columns

Analises ==
    {"Previsão de Demanda", "Clusters de Performance", "Detecção de Anomalias",
     "Recomendações"}

E_Dependencias == "error: Algumas dependências estão faltando"
E_Faltantes == "error: Colunas faltantes"
E_ProcessarIA == "error: Erro ao processar dados"

\* main of page 3: deps tells whether statsmodels and scikit-learn were
\* imported.  analise names the analysis the run handed the table to,
\* "nenhuma" when it handed it to none; the analyses themselves draw
\* charts from the table and are not modelled further
Pagina3Main ==
    \E deps \in BOOLEAN :
       IF ~ deps
       THEN /\ dados' = None
            /\ cached_file' = None
            /\ ret' = NoCall
            /\ out' = [op |-> "pagina3", msgs |-> <<E_Dependencias>>,
                       aceito |-> FALSE, analise |-> "nenhuma"]
            /\ UNCHANGED <<cell, normOut, disk, cache, cacheSimple>>
       ELSE IF listar_arquivos(disk) = <<>> THEN SemArquivos("pagina3")
       ELSE /\ carregar_dados(None, None, listar_arquivos(disk)[1])
            /\ IF ~ ret'.value
               THEN out' = [op |-> "pagina3", msgs |-> <<E_Carregar>>,
                            aceito |-> FALSE, analise |-> "nenhuma"]
               ELSE IF ~ verificar_dados(dados')
               THEN out' = [op |-> "pagina3", msgs |-> <<E_Faltantes>>,
                            aceito |-> FALSE, analise |-> "nenhuma"]
               ELSE IF DatasValidas(dados') = {}
               THEN \* NaT has no date(): line 371 raises
                    out' = [op |-> "pagina3",
                            msgs |-> <<E_ProcessarIA, E_Colunas, E_Formato>>,
                            aceito |-> TRUE, analise |-> "nenhuma"]
               ELSE \E analise \in Analises :
                       out' = [op |-> "pagina3", msgs |-> <<>>,
                               aceito |-> TRUE, analise |-> analise]
            /\ UNCHANGED <<cell, normOut, disk, cacheSimple>>

\* a call of mostrar_tabela_bases on the loaded instance, with the rows of
\* some statuses and any group
MostrarTabelaBases ==
    /\ dados # None
    /\ dados # NoAttr
    /\ "GRUPO" \in dados.columns
    /\ \E status \in OpcoesStatus(dados) :
       \E grupo \in OpcoesGrupo(dados) :
          LET f == Filtra(dados, LAMBDA r : r["STATUS"] \in status)
          IN  \E rel \in {mostrar_tabela_bases(f, grupo, comRound) :
                            comRound \in BOOLEAN} :
                 out' = [op |-> "mostrar_tabela_bases", grupo |-> grupo,
                         status |-> status,
                         tabulados |-> IF grupo # "Todos"
                                       THEN RowsOf(f.rows, "GRUPO", grupo)
                                       ELSE f.rows]
                        @@ rel
    /\ UNCHANGED <<cell, normOut, disk, dados, cached_file, cache, cacheSimple, ret>>

\* a call of listar_arquivos.  os.path.exists(self.pasta_dados) is read
\* from the environment at the call: existe tells whether the directory
\* is there, disk what it holds when it is
E_SemPasta == "error: Pasta não encontrada"
W_SemArquivo == "warning: Nenhum arquivo Excel/CSV encontrado"
I_Formatos == "info: Formatos suportados: .xlsx, .csv"

ListarArquivos ==
    /\ \E existe \in BOOLEAN :
          ret' = [op |-> "listar_arquivos", existe |-> existe,
                  value |-> IF existe THEN listar_arquivos(disk) ELSE <<>>,
                  msgs |-> IF ~ existe THEN <<E_SemPasta>>
                           ELSE IF listar_arquivos(disk) = <<>>
                           THEN <<W_SemArquivo, I_Formatos>>
                           ELSE <<>>]
    /\ UNCHANGED <<cell, normOut, disk, dados, cached_file, cache, cacheSimple, out>>

(***************************************************************************)
(* The report specifications, one per script.  The directory holds one     *)
(* table, any choice of at most MaxRows rows of the catalogue, and a file  *)
(* that is not listed.                                                     *)
(***************************************************************************)
\* the rows with a BASE that holds a text or is missing
LinhasRel ==
    {i \in 1..Len(CatalogoLinhas) :
        CatalogoLinhas[i]["BASE"].kind = "nan" \/ CatalogoLinhas[i]["BASE"].s # ""}

TabelasRel ==
    UNION {{t \in [1..n -> LinhasRel] :
               \A i \in 1..(n - 1) : t[i] < t[i + 1]} : n \in 0..MaxRows}

DiscoRel(linhas) ==
    [n \in {Arquivo("a", "csv"), Arquivo("e", "txt")} |->
        IF n = Arquivo("a", "csv") THEN Tabela(linhas) ELSE Tabela(<<6>>)]

InitRel ==
    /\ cell = NaN
    /\ normOut = Pending
    /\ disk \in {DiscoRel(linhas) : linhas \in TabelasRel}
    /\ dados = None
    /\ cached_file = None
    /\ cache = <<>>
    /\ cacheSimple = {}
    /\ ret = NoCall
    /\ out = SemRelatorio

\* page 1
NextRel == Pagina1Main

SpecRel == InitRel /\ [][NextRel]_vars

\* one instance: the load of the listed file, then mostrar_tabela_bases
NextTabela ==
    \/ CarregarDados(listar_arquivos(disk)[1])
    \/ MostrarTabelaBases

SpecTabela == InitRel /\ [][NextTabela]_vars

\* the listing: the directory holds any choice of five names, each a table
\* of one row
NomesLista ==
    <<Arquivo("a", "csv"), Arquivo("b", "xlsx"), Arquivo("c", "csv"),
      Arquivo("e", "txt"), Arquivo("m", "xlsx")>>

DiscoLista(S) ==
    [n \in S |-> Tabela(<<CHOOSE k \in 1..Len(NomesLista) : NomesLista[k] = n>>)]

InitLista ==
    /\ cell = NaN
    /\ normOut = Pending
    /\ disk \in {DiscoLista(S) : S \in SUBSET Range(NomesLista)}
    /\ dados = None
    /\ cached_file = None
    /\ cache = <<>>
    /\ cacheSimple = {}
    /\ ret = NoCall
    /\ out = SemRelatorio

NextLista ==
    \/ ListarArquivos
    \/ Pagina2Main
    \/ AppMainStatus

SpecLista == InitLista /\ [][NextLista]_vars

\* the application
NextProd == AppMainProdutividade

SpecProd == InitRel /\ [][NextProd]_vars

\* streamlit_app.py with either analysis selected
NextApp ==
    \/ AppMainProdutividade
    \/ AppMainStatus

SpecApp == InitRel /\ [][NextApp]_vars

\* page 2
NextAvancada == Pagina2Main

SpecAvancada == InitRel /\ [][NextAvancada]_vars

\* the status analysis on files that may hold a BASE cell of blanks only
LinhasStatus == {1, 2, 4, 5, 7, Len(CatalogoLinhas)}

TabelasStatus ==
    UNION {{t \in [1..n -> LinhasStatus] :
               \A i \in 1..(n - 1) : t[i] < t[i + 1]} : n \in 0..MaxRows}

InitStatus ==
    /\ cell = NaN
    /\ normOut = Pending
    /\ disk \in {DiscoRel(linhas) : linhas \in TabelasStatus}
    /\ dados = None
    /\ cached_file = None
    /\ cache = <<>>
    /\ cacheSimple = {}
    /\ ret = NoCall
    /\ out = SemRelatorio

NextStatus == AppMainStatus

SpecStatus == InitStatus /\ [][NextStatus]_vars

\* page 3
NextIA == Pagina3Main

SpecIA == InitRel /\ [][NextIA]_vars

(***************************************************************************)
(* Claims about the tables of mostrar_tabela_bases.                        *)
(***************************************************************************)
\* the rows of a produced table but its last, and its last row
LinhasDeBase(t) == SubSeq(t, 1, Len(t) - 1)
LinhaTotal(t) == t[Len(t)]

\* the rows the Desconexão table is built from
DeDesconexao(rows) ==
    SelectSeq(rows, LAMBDA r : ContemDESCONEX(r["TIPO DE SERVIÇO"]))

\* C1: in both tables of mostrar_tabela_bases the ratio columns of the
\* 'Total Geral' row are the quotients of that row's own column totals
\* (VL EQ = total value / total teams, EQ_CTTS = total contracts / total
\* teams, 0 when there is no team), rounded as the table rounds them, and
\* not the mean of the ratios of the base rows.
T_C1_RazoesDoTotal ==
    out.op = "mostrar_tabela_bases" =>
        /\ out.resumo # <<>> =>
              LET tot == LinhaTotal(out.resumo)
              IN  /\ tot["BASE"] = "Total Geral"
                  /\ tot["VL EQ"] = IF tot["EQUIPES"] > 0
                                    THEN Round(Frac(tot["VALOR"], 100 * tot["EQUIPES"]), 2)
                                    ELSE ZeroRatio
                  /\ tot["EQ_CTTS"] = IF tot["EQUIPES"] > 0
                                      THEN Round(Frac(tot["CONTRATOS"], tot["EQUIPES"]), 1)
                                      ELSE ZeroRatio
        /\ out.desconexao # <<>> =>
              LET tot == LinhaTotal(out.desconexao)
              IN  /\ tot["BASE"] = "Total Geral"
                  /\ tot["VL EQ"] = IF tot["TECNICO"] > 0
                                    THEN Frac(tot["VALOR EMPRESA"], 100 * tot["TECNICO"])
                                    ELSE ZeroRatio
                  /\ tot["EQ_CTTS"] = IF tot["TECNICO"] > 0
                                      THEN Round(Frac(tot["CONTRATO"], tot["TECNICO"]), 1)
                                      ELSE ZeroRatio

\* both tables were produced, with several bases, and the total VL EQ of the
\* summary differs from the mean of the VL EQ of its bases
W_C1_RazoesDoTotal ==
    /\ out.op = "mostrar_tabela_bases"
    /\ Len(out.resumo) > 2
    /\ out.desconexao # <<>>
    /\ LinhaTotal(out.resumo)["VL EQ"]
         # Round(MeanDec(LinhasDeBase(out.resumo), "VL EQ", 2), 2)

\* C2: whenever mostrar_tabela_bases produces the summary table, VALOR,
\* CONTRATOS and EQUIPES of its 'Total Geral' row are the sums of those
\* columns over the base rows shown in the table.
T_C2_TotalConsistente ==
    (out.op = "mostrar_tabela_bases" /\ out.resumo # <<>>) =>
        LET tot == LinhaTotal(out.resumo)
            bases == LinhasDeBase(out.resumo)
        IN  /\ tot["VALOR"] = SumCol(bases, "VALOR")
            /\ tot["CONTRATOS"] = SumCol(bases, "CONTRATOS")
            /\ tot["EQUIPES"] = SumCol(bases, "EQUIPES")

\* a summary of several bases, one of them with more than one contract
W_C2_TotalConsistente ==
    /\ out.op = "mostrar_tabela_bases"
    /\ Len(out.resumo) > 2
    /\ \E i \in 1..(Len(out.resumo) - 1) : out.resumo[i]["CONTRATOS"] > 1
    /\ LinhaTotal(out.resumo)["VALOR"] > 0

\* C3: in both tables every base row stands for a base that has a row in
\* the data the table is built from and shows at least one technician; a
\* category of BASE without such a row is not shown.
T_C3_SoBasesAtivas ==
    out.op = "mostrar_tabela_bases" =>
        /\ \A i \in 1..(Len(out.resumo) - 1) :
              /\ out.resumo[i]["EQUIPES"] >= 1
              /\ out.resumo[i]["BASE"] \in Unique(out.tabulados, "BASE")
        /\ \A i \in 1..(Len(out.desconexao) - 1) :
              /\ out.desconexao[i]["TECNICO"] >= 1
              /\ out.desconexao[i]["BASE"]
                    \in Unique(DeDesconexao(out.tabulados), "BASE")

\* both tables were produced from rows that leave a category of BASE empty
W_C3_SoBasesAtivas ==
    /\ out.op = "mostrar_tabela_bases"
    /\ out.resumo # <<>>
    /\ out.desconexao # <<>>
    /\ dados.cats["BASE"] \ Unique(out.tabulados, "BASE") # {}
    /\ Unique(out.tabulados, "BASE")
          \ Unique(DeDesconexao(out.tabulados), "BASE") # {}

(***************************************************************************)
(* Claims about ratios and filters.                                        *)
(***************************************************************************)
EhNumero(x) == x.kind = "dec"
EhZero(x) == x.kind = "dec" /\ x.v = 0

\* C4 (the claim as stated, for page 2): every CONTRATOS_POR_TECNICO and
\* VALOR_MEDIO_CONTRATO that analisar_produtividade_regional produces is a
\* number, and is zero where the divisor of its group is zero.
P_C4_RazaoDefinida ==
    (out.op = "pagina2" /\ "regional" \in DOMAIN out) =>
        \A i \in 1..Len(out.regional) :
            LET x == out.regional[i]
            IN  /\ EhNumero(x["CONTRATOS_POR_TECNICO"])
                /\ EhNumero(x["VALOR_MEDIO_CONTRATO"])
                /\ x["TECNICO"] = 0 => EhZero(x["CONTRATOS_POR_TECNICO"])
                /\ x["CONTRATO"] = 0 => EhZero(x["VALOR_MEDIO_CONTRATO"])

\* C7 (the claim as stated, for page 1): a run in which statuses are on
\* offer and none is selected reports that at least one status must be
\* selected and computes no table.
P_C7_StatusVazioErro ==
    (/\ out.op \in {"pagina1", "analisar_produtividade"}
     /\ "status" \in DOMAIN out
     /\ Unique(dados.rows, "STATUS") # {}
     /\ out.status = {}) =>
        /\ \E i \in 1..Len(out.msgs) : out.msgs[i] = W_Status
        /\ out.op = "pagina1" =>
              /\ out.resumo = <<>>
              /\ out.desconexao = <<>>
              /\ out.eficiencia = <<>>
              /\ out.rentabilidade = <<>>
        /\ out.op = "analisar_produtividade" =>
              /\ out.metricas_base = <<>>
              /\ out.valores_base = <<>>

\* the conjunction of the group, base and status predicates on one row
Conjuncao(r, grupo, base, status) ==
    /\ (grupo # "Todos" => r["GRUPO"] = grupo)
    /\ (base # "Todas" => r["BASE"] = base)
    /\ r["STATUS"] \in status

\* C8 (the claim as stated): the rows a report is computed from are exactly
\* the rows of the loaded table that satisfy the group, base and status
\* predicates together (and, in analisar_produtividade, have their date
\* between the first and the last valid date).
P_C8_FiltroConjuncao ==
    /\ (out.op = "pagina1" /\ "filtrados" \in DOMAIN out) =>
          out.filtrados = SelectSeq(dados.rows,
                             LAMBDA r : Conjuncao(r, out.grupo, out.base, out.status))
    /\ (out.op = "analisar_produtividade" /\ "filtrados" \in DOMAIN out
        /\ out.filtrou) =>
          out.filtrados = SelectSeq(dados.rows,
                             LAMBDA r : /\ r["DATA_TOA"].kind = "date"
                                        /\ Conjuncao(r, out.grupo, out.base, out.status))

\* analisar_produtividade has rendered its tables
ProdRendeu ==
    /\ out.op = "analisar_produtividade"
    /\ "filtrados" \in DOMAIN out
    /\ out.filtrados # <<>>

\* the filtered rows hold a row of the base
TemLinha(base) == \E i \in 1..Len(out.filtrados) : out.filtrados[i]["BASE"] = base

\* C19: in analisar_produtividade the table 'Métricas por Base' and the
\* chart 'Valores por Base' hold a row for a base only if some filtered row
\* belongs to that base.
P_C19_SoBasesFiltradas ==
    ProdRendeu =>
       /\ \A i \in 1..Len(out.metricas_base) : TemLinha(out.metricas_base[i].Base)
       /\ \A i \in 1..Len(out.valores_base) : TemLinha(out.valores_base[i].BASE)

\* the i-th row of the file has a DATA_TOA text that is no date
DataIlegivel(i) ==
    /\ LinhaDoArquivo(i)["DATA_TOA"].kind = "str"
    /\ ToDatetime(LinhaDoArquivo(i)["DATA_TOA"]) = NaT

\* the rows of a list that have no date
SemData(rows) == SelectSeq(rows, LAMBDA r : r["DATA_TOA"] = NaT)

Distintos(rows, col, v) == NUnique(RowsOf(rows, col, v), "CONTRATO")

\* C20: every contract count computed by analisar_produtividade is a count
\* of distinct contracts (per base in the activity step and in 'Métricas
\* por Base', in the total, per technician, per service type), and so is
\* every contract count computed by analisar_status (per status in the
\* chart and in the summary).
P_C20_UmaConvencao ==
    /\ ProdRendeu =>
          /\ \A i \in 1..Len(out.dados_agrupados) :
                out.dados_agrupados[i].CONTRATO
                  = Distintos(out.filtrados, "BASE", out.dados_agrupados[i].BASE)
          /\ \A i \in 1..Len(out.metricas_base) :
                out.metricas_base[i].TotalContratos
                  = Distintos(out.filtrados, "BASE", out.metricas_base[i].Base)
          /\ out.totais.total_contratos = NUnique(out.filtrados, "CONTRATO")
          /\ \A i \in 1..Len(out.prod_tecnico) :
                out.prod_tecnico[i].Contratos
                  = Distintos(out.filtrados, "TECNICO", out.prod_tecnico[i].Tecnico)
          /\ out.base # "Todas" =>
                \A i \in 1..Len(out.servicos_analise) :
                   out.servicos_analise[i].CONTRATO
                     = Distintos(out.filtrados, "TIPO DE SERVIÇO",
                                 out.servicos_analise[i].TIPO)
          /\ out.base = "Todas" =>
                \A i \in 1..Len(out.servicos_analise) :
                   out.servicos_analise[i].CONTRATO
                     = Distintos(RowsOf(out.filtrados, "BASE",
                                        out.servicos_analise[i].BASE),
                                 "TIPO DE SERVIÇO", out.servicos_analise[i].TIPO)
    /\ (out.op = "analisar_status" /\ "rendeu" \in DOMAIN out /\ out.rendeu) =>
          /\ \A i \in 1..Len(out.status_count) :
                out.status_count[i].Quantidade
                  = Distintos(out.filtrados, "STATUS", out.status_count[i].Status)
          /\ \A i \in 1..Len(out.resumo_status) :
                out.resumo_status[i].QuantidadeContratos
                  = Distintos(out.filtrados, "STATUS", out.resumo_status[i].Status)

\* the place of a text in the ascending order of texts
PosTexto(t) == CHOOSE i \in 1..Len(OrdemTexto) : OrdemTexto[i] = t

\* C24: in the 'Resumo por Base' table produced by mostrar_tabela_bases the
\* base rows come in ascending order of BASE and the 'Total Geral' row is
\* the last row.
T_C24_BasesEmOrdem ==
    (out.op = "mostrar_tabela_bases" /\ out.resumo # <<>>) =>
        /\ LinhaTotal(out.resumo)["BASE"] = "Total Geral"
        /\ \A i \in 1..(Len(out.resumo) - 1) :
              /\ out.resumo[i]["BASE"] # "Total Geral"
              /\ \A j \in (i + 1)..(Len(out.resumo) - 1) :
                    PosTexto(out.resumo[i]["BASE"]) < PosTexto(out.resumo[j]["BASE"])

\* a summary of three bases
W_C24_BasesEmOrdem ==
    /\ out.op = "mostrar_tabela_bases"
    /\ Len(out.resumo) > 3

\* the rows of a list whose BASE has a row in a summary table
DasBasesDe(rows, t) ==
    SelectSeq(rows, LAMBDA r : \E i \in 1..Len(t) : t[i]["BASE"] = r["BASE"])

\* C28: EQUIPES of the 'Total Geral' row is the number of distinct
\* technicians among all the rows of the bases of the summary, the value
\* page 1 shows as 'Total de Técnicos', also when a technician has rows in
\* more than one base.
P_C28_EquipesDistintas ==
    (out.op = "mostrar_tabela_bases" /\ out.resumo # <<>>) =>
        LinhaTotal(out.resumo)["EQUIPES"]
          = NUnique(DasBasesDe(out.tabulados, LinhasDeBase(out.resumo)), "TECNICO")

\* C21: a report run whose filters select no row issues a warning or an
\* error and renders nothing further.  On page 1, whose main leaves the
\* check to mostrar_tabela_bases: the run shows the one warning of
\* mostrar_tabela_bases and no other message.
P_C21_AvisoEFim ==
    (out.op = "pagina1" /\ "filtrados" \in DOMAIN out /\ dados.rows # <<>>
       /\ out.filtrados = <<>>) =>
        out.msgs = <<W_SemDados>>

\* a name that listar_arquivos is to return
Elegivel(n) == n.ext \in {"xlsx", "csv"}

\* the order of two names as texts: the stems are single letters
NomeMenor(a, b) ==
    LET p(s, o) == CHOOSE i \in 1..Len(o) : o[i] = s
    IN  \/ p(a.stem, OrdemStem) < p(b.stem, OrdemStem)
        \/ a.stem = b.stem /\ p(a.ext, OrdemExt) < p(b.ext, OrdemExt)

\* the first of the names of a directory that listar_arquivos is to return
PrimeiroElegivel(d) ==
    CHOOSE n \in DOMAIN d :
       Elegivel(n) /\ \A x \in DOMAIN d : (Elegivel(x) /\ x # n) => NomeMenor(n, x)

\* C25: listar_arquivos returns exactly the names of the data directory
\* that end in .xlsx or .csv, in ascending order, and the empty list when
\* the directory is missing or holds no such file; a run that makes no
\* selection (a page, or the application with one listed file) loads the
\* first name of the list.
T_C25_ListaOrdenada ==
    /\ ret.op = "listar_arquivos" =>
          /\ ~ ret.existe => ret.value = <<>>
          /\ ret.existe =>
                /\ Range(ret.value) = {n \in DOMAIN disk : Elegivel(n)}
                /\ \A i \in 1..Len(ret.value) : \A j \in (i + 1)..Len(ret.value) :
                      NomeMenor(ret.value[i], ret.value[j])
    /\ (ret.op = "carregar_dados" /\ out.op = "pagina2") =>
          ret.nome = PrimeiroElegivel(disk)
    /\ (ret.op = "carregar_dados" /\ out.op = "analisar_status"
          /\ Cardinality({n \in DOMAIN disk : Elegivel(n)}) = 1) =>
          ret.nome = PrimeiroElegivel(disk)

\* a listing of three names out of a directory that also holds another
\* file
W_C25_ListaOrdenada ==
    /\ ret.op = "listar_arquivos"
    /\ Len(ret.value) = 3
    /\ Cardinality(DOMAIN disk) > 3

\* a page run in a directory with several listed files
W_C25_PrimeiroCarregado ==
    /\ out.op = "pagina2"
    /\ ret.op = "carregar_dados"
    /\ Cardinality({n \in DOMAIN disk : Elegivel(n)}) > 2

\* the table of an instance is the processed table of a file: every row of
\* the file, the dates converted, the group of each row derived
Processada(df, nome) ==
    /\ df # None
    /\ df # NoAttr
    /\ "GRUPO" \in df.columns
    /\ Len(df.rows) = Len(disk[nome].linhas)
    /\ \A i \in 1..Len(df.rows) :
          /\ df.rows[i]["GRUPO"] = get_grupo_base(df.rows[i]["BASE"])
          /\ df.rows[i]["DATA_TOA"].kind \in {"date", "NaT"}
    /\ df = CargaDireta(nome)

\* C27: on one instance, after any sequence of calls of carregar_dados,
\* whenever a call returns True the instance names the file of that call
\* in cached_file and holds its fully processed table, never the table of
\* a file selected before and never a partly processed one.
T_C27_TabelaDoPedido ==
    (ret.op = "carregar_dados" /\ ret.value) =>
        /\ cached_file = ret.nome
        /\ Processada(dados, ret.nome)

\* a file has been read by an instance while the loader cache holds the
\* table of another file
W_C27_TabelaDoPedido ==
    /\ ret.op = "carregar_dados"
    /\ ret.value
    /\ ret.via = "read"
    /\ Len(dados.rows) > 0
    /\ \E i \in 1..Len(cache) : cache[i].key[2] # ret.nome

P_C26_Idempotente ==
    normOut # Pending => NormalizaValor(normOut) = normOut

\* C29: on page 3, whenever carregar_dados succeeds verificar_dados accepts
\* the loaded table, every column it asks for being among the columns of
\* the table, and the run hands the table to the selected analysis.
P_C29_AnaliseExecutada ==
    (out.op = "pagina3" /\ ret.op = "carregar_dados" /\ ret.value) =>
        /\ ColunasIA \subseteq dados.columns
        /\ out.aceito
        /\ out.analise \in Analises

\* C30: in analisar_status every option of the base selector other than
\* 'Todas', 'Não Informado' shown for a BASE of blanks included, selects at
\* least one row of the table when applied as the BASE filter.
P_C30_OpcaoComLinha ==
    (out.op = "analisar_status" /\ "rendeu" \in DOMAIN out /\ out.rendeu
       /\ out.base # "Todas") =>
        out.filtrados # <<>>

\* C22: no exception leaves an entry point: whatever step of a run fails,
\* a missing style.css included, the failure is caught and reported and
\* the run returns normally.
P_C22_NadaEscapa ==
    "escapou" \notin DOMAIN out
====
